---- MODULE Spec2Model ----
(***************************************************************************)
(* TenebriNET protocol emulation and capture layer: the SSH, HTTP and FTP  *)
(* honeypot handlers and the record store they write to.                   *)
(*                                                                         *)
(* Strings that the code inspects character by character are sequences of  *)
(* one-character strings; ids (uuid4) are drawn from a counter; time is a  *)
(* counter that Tick advances.                                             *)
(***************************************************************************)
EXTENDS Integers, Sequences, FiniteSets, TLC

VARIABLES db, clock, ftp, ssh, tasks, http, twin, budget, resolver, feed, matcher, svc

vars == <<db, clock, ftp, ssh, tasks, http, twin, budget, resolver, feed, matcher, svc>>

-----------------------------------------------------------------------------
(* Bounds of the exploration *)

MaxIds == 6
MaxClock == 2
MaxFtpLines == 3
MaxCmds == 2
MaxLine == 1
MaxReq == 2
MaxEvents == 4
MaxConns == 2
MaxPath == 4
MaxStream == 3
MaxSessionLines == 6
MaxGateLines == 5
MaxHandlers == 2
IdleLimit == 2
MaxFrags == 2

-----------------------------------------------------------------------------
(* The handler steps still allowed in a bounded run; NoBudget: unbounded *)

NoBudget == 0 - 1

Spend ==
    IF budget = NoBudget THEN UNCHANGED budget
    ELSE budget > 0 /\ budget' = budget - 1

-----------------------------------------------------------------------------
(* Optional[...] = None *)

NoId == 0
NoTime == 0
Null == "<None>"

-----------------------------------------------------------------------------
(* Record store: core/models.py over core/database.py.  One transaction is *)
(* one `async with AsyncSessionLocal()` block: nothing of it is visible    *)
(* until commit, and an exception before commit rolls all of it back.      *)

DbInit == [attacks |-> {}, credentials |-> {}, sessions |-> <<>>, nextId |-> 1]

AttackRow(id, ip, service, threat_type) ==
    [id |-> id, ip |-> ip, service |-> service, threat_type |-> threat_type]

CredentialRow(id, attack_id, username, password, success) ==
    [id |-> id, attack_id |-> attack_id, username |-> username,
     password |-> password, success |-> success]

\* A Session that is stamped after the instant its INSERT was made
SessionRowLate(attack_id, start_time, commands) ==
    [attack_id |-> attack_id, start_time |-> start_time + 1, end_time |-> NoTime,
     commands |-> commands]

SessionRow(attack_id, start_time, commands) ==
    [attack_id |-> attack_id, start_time |-> start_time, end_time |-> NoTime,
     commands |-> commands]

AttackIds(d) == {a.id : a \in d.attacks}

SessionIds(d) == DOMAIN d.sessions

\* A store that does not enforce the foreign key
ForeignKeyUnchecked(d, attack_id) == TRUE

\* ForeignKey("attacks.id"): the INSERT of a row whose attack_id names no
\* committed Attack (and is not NULL) raises.
ForeignKeyOk(d, attack_id) == attack_id = NoId \/ attack_id \in AttackIds(d)

PutSession(d, id, row) ==
    [d EXCEPT !.sessions = [k \in (DOMAIN d.sessions) \cup {id} |->
                               IF k = id THEN row ELSE d.sessions[k]]]

-----------------------------------------------------------------------------
(* The fake filesystem of the FTP emulator and _resolve_path.  A path is the *)
(* sequence of its characters.                                              *)

Min(S) == CHOOSE x \in S : \A y \in S : x <= y
Max(S) == CHOOSE x \in S : \A y \in S : x >= y

\* The keys of FAKE_FILES: the directories _cmd_cwd lets current_dir take
FakeDirs ==
    { <<"/">>,
      <<"/", "b", "a", "c", "k", "u", "p">>,
      <<"/", "p", "u", "b", "l", "i", "c", "_", "h", "t", "m", "l">>,
      <<"/", "l", "o", "g", "s">> }

\* FAKE_FILES: every entry of every directory, with its size
FakeFiles ==
    { [dir |-> <<"/">>,
       name |-> <<".">>, size |-> 4096],
      [dir |-> <<"/">>,
       name |-> <<".", ".">>, size |-> 4096],
      [dir |-> <<"/">>,
       name |-> <<"b", "a", "c", "k", "u", "p">>, size |-> 4096],
      [dir |-> <<"/">>,
       name |-> <<"p", "u", "b", "l", "i", "c", "_", "h", "t", "m", "l">>, size |-> 4096],
      [dir |-> <<"/">>,
       name |-> <<"l", "o", "g", "s">>, size |-> 4096],
      [dir |-> <<"/">>,
       name |-> <<".", "h", "t", "a", "c", "c", "e", "s", "s">>, size |-> 235],
      [dir |-> <<"/">>,
       name |-> <<"c", "o", "n", "f", "i", "g", ".", "p", "h", "p">>, size |-> 1842],
      [dir |-> <<"/", "b", "a", "c", "k", "u", "p">>,
       name |-> <<".">>, size |-> 4096],
      [dir |-> <<"/", "b", "a", "c", "k", "u", "p">>,
       name |-> <<".", ".">>, size |-> 4096],
      [dir |-> <<"/", "b", "a", "c", "k", "u", "p">>,
       name |-> <<"d", "b", "_", "b", "a", "c", "k", "u", "p", "_", "2", "0", "2", "4", ".", "s", "q", "l", ".", "g", "z">>, size |-> 15728640],
      [dir |-> <<"/", "b", "a", "c", "k", "u", "p">>,
       name |-> <<"s", "i", "t", "e", "_", "b", "a", "c", "k", "u", "p", ".", "t", "a", "r", ".", "g", "z">>, size |-> 52428800],
      [dir |-> <<"/", "b", "a", "c", "k", "u", "p">>,
       name |-> <<"c", "r", "e", "d", "e", "n", "t", "i", "a", "l", "s", ".", "t", "x", "t">>, size |-> 512],
      [dir |-> <<"/", "p", "u", "b", "l", "i", "c", "_", "h", "t", "m", "l">>,
       name |-> <<".">>, size |-> 4096],
      [dir |-> <<"/", "p", "u", "b", "l", "i", "c", "_", "h", "t", "m", "l">>,
       name |-> <<".", ".">>, size |-> 4096],
      [dir |-> <<"/", "p", "u", "b", "l", "i", "c", "_", "h", "t", "m", "l">>,
       name |-> <<"i", "n", "d", "e", "x", ".", "p", "h", "p">>, size |-> 4523],
      [dir |-> <<"/", "p", "u", "b", "l", "i", "c", "_", "h", "t", "m", "l">>,
       name |-> <<"w", "p", "-", "c", "o", "n", "f", "i", "g", ".", "p", "h", "p">>, size |-> 2841],
      [dir |-> <<"/", "p", "u", "b", "l", "i", "c", "_", "h", "t", "m", "l">>,
       name |-> <<"w", "p", "-", "c", "o", "n", "t", "e", "n", "t">>, size |-> 4096],
      [dir |-> <<"/", "l", "o", "g", "s">>,
       name |-> <<".">>, size |-> 4096],
      [dir |-> <<"/", "l", "o", "g", "s">>,
       name |-> <<".", ".">>, size |-> 4096],
      [dir |-> <<"/", "l", "o", "g", "s">>,
       name |-> <<"a", "c", "c", "e", "s", "s", ".", "l", "o", "g">>, size |-> 1048576],
      [dir |-> <<"/", "l", "o", "g", "s">>,
       name |-> <<"e", "r", "r", "o", "r", ".", "l", "o", "g">>, size |-> 524288] }

\* The characters of the arguments: the separator, the dot and a letter
PathChars == {"/", ".", "a"}

PathArgs == UNION { [1..n -> PathChars] : n \in 0..MaxPath }

RECURSIVE SplitSlash(_)
\* result.split("/")
SplitSlash(s) ==
    LET at == {i \in 1..Len(s) : s[i] = "/"}
    IN IF at = {} THEN <<s>>
       ELSE <<SubSeq(s, 1, Min(at) - 1)>> \o SplitSlash(SubSeq(s, Min(at) + 1, Len(s)))

RECURSIVE ResolveParts(_, _)
\* the loop over parts: ".." pops, "" and "." are skipped
ResolveParts(parts, resolved) ==
    IF parts = <<>> THEN resolved
    ELSE LET part == Head(parts)
         IN ResolveParts(Tail(parts),
                IF part = <<".", ".">>
                THEN IF resolved # <<>>
                     THEN SubSeq(resolved, 1, Len(resolved) - 1)
                     ELSE resolved
                ELSE IF part # <<>> /\ part # <<".">>
                THEN Append(resolved, part)
                ELSE resolved)

RECURSIVE JoinSlash(_)
\* "/".join(resolved)
JoinSlash(parts) ==
    IF parts = <<>> THEN <<>>
    ELSE IF Len(parts) = 1 THEN parts[1]
    ELSE parts[1] \o <<"/">> \o JoinSlash(Tail(parts))

\* A resolver that joins every path, absolute ones too, to current_dir
ResolvePathJoined(current_dir, path) ==
    IF path = <<>> THEN current_dir
    ELSE LET result == IF current_dir = <<"/">> THEN <<"/">> \o path
                       ELSE current_dir \o <<"/">> \o path
             resolved == ResolveParts(SplitSlash(result), <<>>)
         IN IF resolved # <<>> THEN <<"/">> \o JoinSlash(resolved) ELSE <<"/">>

\* _resolve_path
ResolvePath(current_dir, path) ==
    IF path = <<>> THEN current_dir
    ELSE LET result == IF path[1] = "/" THEN path
                       ELSE IF current_dir = <<"/">> THEN <<"/">> \o path
                       ELSE current_dir \o <<"/">> \o path
             resolved == ResolveParts(SplitSlash(result), <<>>)
         IN IF resolved # <<>> THEN <<"/">> \o JoinSlash(resolved) ELSE <<"/">>

-----------------------------------------------------------------------------
(* FTP emulator: FTPClientHandler *)

FtpPeer == "ftp-peer"

\* str.upper() on the command words the model sends
Upper(w) ==
    CASE w = "user" -> "USER"
      [] w = "pass" -> "PASS"
      [] w = "quit" -> "QUIT"
      [] OTHER -> w

\* str.lower() on the user names the model sends
Lower(w) ==
    CASE w = "Anonymous" -> "anonymous"
      [] w = "ANONYMOUS" -> "anonymous"
      [] OTHER -> w

Line(word, arg) == [word |-> word, arg |-> arg]

\* The lines of a client that uses the data channel
FtpDataLines ==
    { Line("PASV", ""), Line("LIST", ""), Line("NLST", ""),
      Line("RETR", "config.php"), Line("STOR", "x") }

\* The lines of a client that walks the fake filesystem and fetches a file
FtpSessionLines ==
    { Line("PASV", ""), Line("LIST", ""), Line("RETR", "credentials.txt"),
      Line("CWD", "/backup"), Line("CWD", ".."), Line("CWD", "nope"),
      Line("CDUP", ""), Line("PWD", ""), Line("USER", "bob") }

\* The lines of a client that tries every command that asks for a login,
\* logged in or not
FtpGateLines ==
    { Line("PWD", ""), Line("CWD", "/backup"), Line("CDUP", ""),
      Line("MKD", "x"), Line("RMD", "x"), Line("SIZE", "config.php"),
      Line("RETR", "config.php"), Line("STOR", "x"), Line("DELE", "x"),
      Line("RNFR", "x"), Line("RNTO", "y"), Line("PASV", ""), Line("PORT", ""),
      Line("LIST", ""), Line("NLST", ""),
      Line("USER", "bob"), Line("USER", "anonymous"), Line("PASS", "x") }

\* The characters of the arguments the model sends as paths
PathOf(arg) ==
    CASE arg = "/backup" -> <<"/", "b", "a", "c", "k", "u", "p">>
      [] arg = ".." -> <<".", ".">>
      [] arg = "nope" -> <<"n", "o", "p", "e">>
      [] arg = "config.php" -> <<"c", "o", "n", "f", "i", "g", ".", "p", "h", "p">>
      [] arg = "" -> <<>>

\* line.split(" ", 1): a line without a space has the empty argument
FtpLines ==
    { Line("USER", "anonymous"), Line("user", "Anonymous"), Line("USER", "bob"),
      Line("USER", ""), Line("PASS", "x"), Line("pass", ""), Line("NOOP", ""), Line("QUIT", ""),
      Line("XYZZY", "") }

FtpHandlerInit(anonymous) ==
    [pc |-> "accepted", anonymous |-> anonymous,
     username |-> Null, password |-> Null, authenticated |-> FALSE,
     current_dir |-> <<"/">>, rename_from |-> Null,
     attack_id |-> NoId, session_id |-> NoId, commands |-> <<>>,
     passive_server |-> NoId, data_writer |-> NoId,
     listeners |-> <<>>, conns |-> <<>>,
     out |-> <<>>, store_failed |-> FALSE]

\* `not self.username`: None and "" are both falsy
Falsy(s) == s = Null \/ s = ""

\* Outcomes of the transaction of FTPClientHandler._record_attack: the flush
\* of the Attack raises, the flush of the Session raises, the commit raises,
\* or the commit succeeds.
AttackTxOutcomes == {"fail_attack", "fail_session", "fail_commit", "ok"}

\* An [h, d] pair: the handler and the store after a step
HD(h, d) == [h |-> h, d |-> d]

FtpRecordAttack(h, d, now, o) ==
    LET aid == d.nextId
        sid == d.nextId + 1
        failed == [h EXCEPT !.store_failed = TRUE]
    IN CASE o = "fail_attack" -> HD(failed, d)
         [] o = "fail_session" ->
              HD([failed EXCEPT !.attack_id = aid],
                 [d EXCEPT !.nextId = aid + 1])
         [] o = "fail_commit" ->
              HD([failed EXCEPT !.attack_id = aid, !.session_id = sid],
                 [d EXCEPT !.nextId = sid + 1])
         [] OTHER ->
              HD([h EXCEPT !.attack_id = aid, !.session_id = sid],
                 [PutSession(d, sid, SessionRow(aid, now, h.commands))
                    EXCEPT !.attacks = @ \cup
                              {AttackRow(aid, FtpPeer, "ftp", "credential_attack")},
                           !.nextId = sid + 1])

FtpRecordCredential(h, d, ok) ==
    IF h.attack_id = NoId THEN HD(h, d)
    ELSE IF ok /\ ForeignKeyOk(d, h.attack_id)
    THEN HD(h, [d EXCEPT !.credentials = @ \cup
                   {CredentialRow(d.nextId, h.attack_id,
                       IF h.username = Null THEN "" ELSE h.username,
                       IF h.password = Null THEN "" ELSE h.password, TRUE)},
                 !.nextId = @ + 1])
    ELSE HD([h EXCEPT !.store_failed = TRUE], [d EXCEPT !.nextId = @ + 1])

Reply(r, code) == HD([r.h EXCEPT !.out = Append(@, code)], r.d)

\* A USER that leaves a logged-in client logged in
FtpCmdUserSticky(h, d, now, username, o) ==
    LET h1 == [h EXCEPT !.username = username]
    IN IF Lower(username) = "anonymous" /\ h.anonymous
       THEN Reply(FtpRecordAttack([h1 EXCEPT !.authenticated = TRUE], d, now, o), 230)
       ELSE Reply(HD(h1, d), 331)

FtpCmdUser(h, d, now, username, o) ==
    LET h1 == [h EXCEPT !.username = username, !.authenticated = FALSE]
    IN IF Lower(username) = "anonymous" /\ h.anonymous
       THEN Reply(FtpRecordAttack([h1 EXCEPT !.authenticated = TRUE], d, now, o), 230)
       ELSE Reply(HD(h1, d), 331)

\* A PASS that tells the peer when the store refused the record
FtpCmdPassStrict(h, d, now, password, o, ok) ==
    LET h1 == [h EXCEPT !.password = password]
    IN IF Falsy(h1.username)
       THEN Reply(HD(h1, d), 503)
       ELSE LET r1 == FtpRecordAttack(h1, d, now, o)
                r2 == FtpRecordCredential(r1.h, r1.d, ok)
            IN IF r2.h.store_failed
               THEN Reply(r2, 530)
               ELSE Reply(HD([r2.h EXCEPT !.authenticated = TRUE], r2.d), 230)

\* A PASS that records the attempt whether or not a USER came first
FtpCmdPassUnguarded(h, d, now, password, o, ok) ==
    LET h1 == [h EXCEPT !.password = password]
        r1 == FtpRecordAttack(h1, d, now, o)
        r2 == FtpRecordCredential(r1.h, r1.d, ok)
    IN Reply(HD([r2.h EXCEPT !.authenticated = TRUE], r2.d), 230)

FtpCmdPass(h, d, now, password, o, ok) ==
    LET h1 == [h EXCEPT !.password = password]
    IN IF Falsy(h1.username)
       THEN Reply(HD(h1, d), 503)
       ELSE LET r1 == FtpRecordAttack(h1, d, now, o)
                r2 == FtpRecordCredential(r1.h, r1.d, ok)
            IN Reply(HD([r2.h EXCEPT !.authenticated = TRUE], r2.d), 230)

\* The listening sockets of the handler that are open.  listeners[l] is the
\* l-th server asyncio.start_server made for it: whether it still listens
\* and how many connections it accepted; conns[c] is the c-th data
\* connection accepted: its listener, whether it is open, whether the
\* handler wrote on it, and the canned file content RETR wrote on it.
NoContent == "<nothing>"

\* The text _get_fake_file_content returns for a name holding "passwd" or
\* "credentials": it has the line admin:admin123
CredentialList == "# Credentials backup\nadmin:admin123\nroot:toor\n"

PhpConfig == "<?php\ndefine('DB_NAME', 'wordpress');\n?>\n"

\* _get_fake_file_content, on the file names the model sends
GetFakeFileContent(filename) ==
    CASE filename = "credentials.txt" -> CredentialList
      [] filename = "config.php" -> PhpConfig
      [] OTHER -> "Content of " \o filename \o "\n"

OpenListeners(h) == {l \in 1..Len(h.listeners) : h.listeners[l].open}

\* _handle_passive_connection: a peer connected to listener l
HandlePassiveConnection(h, l) ==
    [h EXCEPT !.conns = Append(@, [listener |-> l, open |-> TRUE, wrote |-> FALSE,
                                   content |-> NoContent]),
              !.listeners[l].accepted = @ + 1,
              !.data_writer = Len(h.conns) + 1]

\* What the surroundings do during one command: whether start_server
\* succeeds, and the listener a peer connects to while LIST sleeps (NoId:
\* no peer connects)
FtpEnv(started, peer) == [started |-> started, peer |-> peer]

NoEnv == FtpEnv(TRUE, NoId)

\* _cmd_pasv
FtpCmdPasv(h, d, started) ==
    IF ~h.authenticated THEN Reply(HD(h, d), 530)
    ELSE IF started
    THEN Reply(HD([h EXCEPT !.listeners = Append(@, [open |-> TRUE, accepted |-> 0]),
                            !.passive_server = Len(h.listeners) + 1], d), 227)
    ELSE Reply(HD(h, d), 425)

\* self.data_writer.close(); self.data_writer = None, after the writes
CloseDataWriter(h, wrote) ==
    [h EXCEPT !.conns[h.data_writer].open = FALSE,
              !.conns[h.data_writer].wrote = @ \/ wrote,
              !.data_writer = NoId]

\* self.passive_server.close() when there is one
ClosePassiveServer(h) ==
    IF h.passive_server = NoId THEN h
    ELSE [h EXCEPT !.listeners[h.passive_server].open = FALSE]

\* A LIST that answers 150 and 226 although it has no data connection
FtpCmdListUnchecked(h, d, peer) ==
    IF ~h.authenticated THEN Reply(HD(h, d), 530)
    ELSE IF h.data_writer = NoId /\ peer = NoId
    THEN Reply(Reply(HD(h, d), 150), 226)
    ELSE LET h1 == IF h.data_writer = NoId
                   THEN HandlePassiveConnection(h, peer)
                   ELSE h
             h2 == ClosePassiveServer(CloseDataWriter(h1, TRUE))
         IN Reply(Reply(HD([h2 EXCEPT !.passive_server = NoId], d), 150), 226)

\* _cmd_list
FtpCmdList(h, d, peer) ==
    IF ~h.authenticated THEN Reply(HD(h, d), 530)
    ELSE LET h1 == IF h.data_writer = NoId /\ peer # NoId
                   THEN HandlePassiveConnection(h, peer)
                   ELSE h
         IN IF h1.data_writer = NoId THEN Reply(HD(h1, d), 425)
            ELSE LET h2 == ClosePassiveServer(CloseDataWriter(h1, TRUE))
                 IN Reply(Reply(HD([h2 EXCEPT !.passive_server = NoId], d), 150), 226)

\* _cmd_retr: the fake content is written on the data connection
FtpCmdRetr(h, d, path) ==
    IF ~h.authenticated THEN Reply(HD(h, d), 530)
    ELSE IF h.data_writer = NoId THEN Reply(HD(h, d), 425)
    ELSE LET h1 == [h EXCEPT !.conns[h.data_writer].content = GetFakeFileContent(path)]
         IN Reply(Reply(HD(CloseDataWriter(h1, TRUE), d), 150), 226)

\* A STOR that leaves the data connection open and pending
FtpCmdStorKeeps(h, d) ==
    IF ~h.authenticated THEN Reply(HD(h, d), 530)
    ELSE IF h.data_writer = NoId THEN Reply(HD(h, d), 425)
    ELSE Reply(Reply(HD(h, d), 150), 226)

\* _cmd_stor: nothing is read from or written on the data connection
FtpCmdStor(h, d) ==
    IF ~h.authenticated THEN Reply(HD(h, d), 530)
    ELSE IF h.data_writer = NoId THEN Reply(HD(h, d), 425)
    ELSE Reply(Reply(HD(CloseDataWriter(h, FALSE), d), 150), 226)

\* _cmd_nlst: no wait for the data connection
FtpCmdNlst(h, d) ==
    IF ~h.authenticated THEN Reply(HD(h, d), 530)
    ELSE IF h.data_writer = NoId THEN Reply(HD(h, d), 425)
    ELSE Reply(Reply(HD(CloseDataWriter(h, TRUE), d), 150), 226)

\* _cmd_pwd
FtpCmdPwd(h, d) ==
    IF ~h.authenticated THEN Reply(HD(h, d), 530) ELSE Reply(HD(h, d), 257)

\* A CWD that takes every resolved path for a directory
FtpCmdCwdAnywhere(h, d, path) ==
    IF ~h.authenticated THEN Reply(HD(h, d), 530)
    ELSE Reply(HD([h EXCEPT !.current_dir = ResolvePath(h.current_dir, path)], d), 250)

\* _cmd_cwd
FtpCmdCwd(h, d, path) ==
    IF ~h.authenticated THEN Reply(HD(h, d), 530)
    ELSE LET new_path == ResolvePath(h.current_dir, path)
         IN IF new_path \in FakeDirs
            THEN Reply(HD([h EXCEPT !.current_dir = new_path], d), 250)
            ELSE Reply(HD(h, d), 550)

\* _cmd_cdup
FtpCmdCdup(h, d) == FtpCmdCwd(h, d, <<".", ".">>)

\* _cmd_mkd
FtpCmdMkd(h, d) ==
    IF ~h.authenticated THEN Reply(HD(h, d), 530) ELSE Reply(HD(h, d), 257)

\* _cmd_rmd
FtpCmdRmd(h, d) ==
    IF ~h.authenticated THEN Reply(HD(h, d), 530) ELSE Reply(HD(h, d), 550)

\* _cmd_dele
FtpCmdDele(h, d) ==
    IF ~h.authenticated THEN Reply(HD(h, d), 530) ELSE Reply(HD(h, d), 550)

\* _cmd_size: full_path.rsplit("/", 1) gives the directory, "/" when it is
\* empty, and the file name
FtpCmdSize(h, d, path) ==
    IF ~h.authenticated THEN Reply(HD(h, d), 530)
    ELSE LET full_path == ResolvePath(h.current_dir, path)
             cut == Max({i \in 1..Len(full_path) : full_path[i] = "/"})
             dir_path == IF cut = 1 THEN <<"/">> ELSE SubSeq(full_path, 1, cut - 1)
             filename == SubSeq(full_path, cut + 1, Len(full_path))
         IN IF \E f \in FakeFiles : f.dir = dir_path /\ f.name = filename
            THEN Reply(HD(h, d), 213)
            ELSE Reply(HD(h, d), 550)

\* A RNFR that notes the name before it asks for the login
FtpCmdRnfrEager(h, d, path) ==
    IF ~h.authenticated THEN Reply(HD([h EXCEPT !.rename_from = path], d), 530)
    ELSE Reply(HD([h EXCEPT !.rename_from = path], d), 350)

\* _cmd_rnfr
FtpCmdRnfr(h, d, path) ==
    IF ~h.authenticated THEN Reply(HD(h, d), 530)
    ELSE Reply(HD([h EXCEPT !.rename_from = path], d), 350)

\* _cmd_rnto
FtpCmdRnto(h, d) ==
    IF ~h.authenticated THEN Reply(HD(h, d), 530)
    ELSE Reply(HD([h EXCEPT !.rename_from = Null], d), 550)

\* _cmd_port
FtpCmdPort(h, d) ==
    IF ~h.authenticated THEN Reply(HD(h, d), 530) ELSE Reply(HD(h, d), 200)

\* An entry of the log that keeps the argument of PASS
LogEntryPlain(cmd, arg) == [cmd |-> cmd, arg |-> arg]

\* The entry self.commands.append adds: the argument of PASS is "***"
LogEntry(cmd, arg) == [cmd |-> cmd, arg |-> IF cmd = "PASS" THEN "***" ELSE arg]

\* _process_command: log the command (PASS redacted), then dispatch
FtpProcessCommand(h, d, now, line, o, ok, env) ==
    LET cmd == Upper(line.word)
        arg == line.arg
        h1 == [h EXCEPT !.commands = Append(@, LogEntry(cmd, arg)),
                        !.out = <<>>]
    IN CASE cmd = "USER" -> FtpCmdUser(h1, d, now, arg, o)
         [] cmd = "PASS" -> FtpCmdPass(h1, d, now, arg, o, ok)
         [] cmd = "SYST" -> Reply(HD(h1, d), 215)
         [] cmd = "NOOP" -> Reply(HD(h1, d), 200)
         [] cmd = "QUIT" -> Reply(HD(h1, d), 221)
         [] cmd = "PASV" -> FtpCmdPasv(h1, d, env.started)
         [] cmd = "LIST" -> FtpCmdList(h1, d, env.peer)
         [] cmd = "NLST" -> FtpCmdNlst(h1, d)
         [] cmd = "RETR" -> FtpCmdRetr(h1, d, arg)
         [] cmd = "PWD" -> FtpCmdPwd(h1, d)
         [] cmd = "CWD" -> FtpCmdCwd(h1, d, PathOf(arg))
         [] cmd = "CDUP" -> FtpCmdCdup(h1, d)
         [] cmd = "MKD" -> FtpCmdMkd(h1, d)
         [] cmd = "RMD" -> FtpCmdRmd(h1, d)
         [] cmd = "SIZE" -> FtpCmdSize(h1, d, PathOf(arg))
         [] cmd = "DELE" -> FtpCmdDele(h1, d)
         [] cmd = "RNFR" -> FtpCmdRnfr(h1, d, arg)
         [] cmd = "RNTO" -> FtpCmdRnto(h1, d)
         [] cmd = "PORT" -> FtpCmdPort(h1, d)
         [] cmd = "STOR" -> FtpCmdStor(h1, d)
         [] OTHER -> Reply(HD(h1, d), 502)

\* _close_session: no Session id, nothing is done; else set end_time and
\* commands of the Session row self.session_id names, when the store has it,
\* and then close the passive server.
FtpCloseSession(h, d, now, ok) ==
    IF h.session_id = NoId THEN HD(h, d)
    ELSE IF ~ok THEN HD(ClosePassiveServer([h EXCEPT !.store_failed = TRUE]), d)
    ELSE IF h.session_id \in SessionIds(d)
    THEN HD(ClosePassiveServer(h),
            [d EXCEPT !.sessions[h.session_id].end_time = now,
                      !.sessions[h.session_id].commands = h.commands])
    ELSE HD(ClosePassiveServer(h), d)

\* handle(): how the command loop ends
FtpExits == {"eof", "timeout", "reset", "error"}

FtpExit(h, d, now, how, ok) ==
    LET h1 == [h EXCEPT !.out = IF how = "timeout" THEN <<421>> ELSE <<>>]
        r == FtpCloseSession(h1, d, now, ok)
    IN HD([r.h EXCEPT !.pc = "exited"], r.d)

\* The commands that write on the data connection and await drain()
FtpDrainLines == {Line("RETR", "config.php"), Line("NLST", "")}

\* A RETR or NLST of a logged-in client whose data peer is gone: 150 is
\* sent, drain() raises ConnectionResetError, the finally block closes and
\* clears the data connection, 226 is not sent and handle() leaves its loop
\* through _close_session
FtpTransferRaises(h, d, now, line, ok) ==
    LET h1 == [h EXCEPT !.commands = Append(@, LogEntry(Upper(line.word), line.arg))]
        r == FtpCloseSession(CloseDataWriter(h1, TRUE), d, now, ok)
    IN HD([r.h EXCEPT !.pc = "exited", !.out = <<150>>], r.d)

FtpWelcome(h) == [h EXCEPT !.pc = "serving", !.out = <<220>>]

FtpAccept ==
    /\ ftp.pc = "accepted"
    /\ ftp' = FtpWelcome(ftp)
    /\ UNCHANGED <<db, clock, ssh, tasks, http, twin, resolver, feed, matcher, svc>>
    /\ Spend

FtpCommand ==
    /\ ftp.pc = "serving"
    /\ Len(ftp.commands) < MaxFtpLines
    /\ db.nextId + 2 <= MaxIds
    /\ \E line \in FtpLines, o \in AttackTxOutcomes, ok \in BOOLEAN :
         LET r == FtpProcessCommand(ftp, db, clock, line, o, ok, NoEnv)
         IN ftp' = r.h /\ db' = r.d
    /\ UNCHANGED <<clock, ssh, tasks, http, twin, resolver, feed, matcher, svc>>
    /\ Spend

\* A command of the data channel: the store is not called
FtpDataCommand ==
    /\ ftp.pc = "serving"
    /\ Len(ftp.commands) < MaxFtpLines
    /\ \E line \in FtpDataLines, started \in BOOLEAN,
          peer \in {NoId} \cup {l \in OpenListeners(ftp) : Len(ftp.conns) < MaxConns} :
         LET r == FtpProcessCommand(ftp, db, clock, line, "ok", TRUE,
                                    FtpEnv(started, peer))
         IN ftp' = r.h /\ db' = r.d
    /\ UNCHANGED <<clock, ssh, tasks, http, twin, resolver, feed, matcher, svc>>
    /\ Spend

\* The handler of the anonymous-listing scenario after USER anonymous and
\* PASS, the store having taken every record, on a server that allows the
\* anonymous login or not
FtpLoggedIn(anonymous) ==
    LET r == FtpProcessCommand(FtpWelcome(FtpHandlerInit(anonymous)), DbInit, 1,
                               Line("USER", "anonymous"), "ok", TRUE, NoEnv)
    IN FtpProcessCommand(r.h, r.d, 1, Line("PASS", "x"), "ok", TRUE, NoEnv)

\* A command of the logged-in client: directories, listings, downloads
FtpSessionCommand ==
    /\ ftp.pc = "serving"
    /\ Len(ftp.commands) < MaxSessionLines
    /\ \E line \in FtpSessionLines, started \in BOOLEAN,
          peer \in {NoId} \cup {l \in OpenListeners(ftp) : Len(ftp.conns) < MaxConns} :
         LET r == FtpProcessCommand(ftp, db, clock, line, "ok", TRUE,
                                    FtpEnv(started, peer))
         IN ftp' = r.h /\ db' = r.d
    /\ UNCHANGED <<clock, ssh, tasks, http, twin, resolver, feed, matcher, svc>>
    /\ Spend

\* A command of a client that was logged in and may have logged out
FtpGateCommand ==
    /\ ftp.pc = "serving"
    /\ Len(ftp.commands) < MaxGateLines
    /\ \E line \in FtpGateLines, started \in BOOLEAN,
          peer \in {NoId} \cup {l \in OpenListeners(ftp) : Len(ftp.conns) < MaxConns} :
         LET r == FtpProcessCommand(ftp, db, clock, line, "ok", TRUE,
                                    FtpEnv(started, peer))
         IN ftp' = r.h /\ db' = r.d
    /\ UNCHANGED <<clock, ssh, tasks, http, twin, resolver, feed, matcher, svc>>
    /\ Spend

\* A transfer to a data peer that has gone away
FtpTransferFails ==
    /\ ftp.pc = "serving"
    /\ Len(ftp.commands) < MaxGateLines
    /\ ftp.authenticated /\ ftp.data_writer # NoId
    /\ \E line \in FtpDrainLines, ok \in BOOLEAN :
         LET r == FtpTransferRaises(ftp, db, clock, line, ok)
         IN ftp' = r.h /\ db' = r.d
    /\ UNCHANGED <<clock, ssh, tasks, http, twin, resolver, feed, matcher, svc>>
    /\ Spend

\* A peer connects to a listening socket of the handler: the event loop
\* accepts it and calls _handle_passive_connection
FtpDataConnect ==
    /\ Len(ftp.conns) < MaxConns
    /\ \E l \in OpenListeners(ftp) : ftp' = HandlePassiveConnection(ftp, l)
    /\ UNCHANGED <<db, clock, ssh, tasks, http, twin, resolver, feed, matcher, svc>>
    /\ Spend

FtpLeave ==
    /\ ftp.pc = "serving"
    /\ \E how \in FtpExits, ok \in BOOLEAN :
         LET r == FtpExit(ftp, db, clock, how, ok)
         IN ftp' = r.h /\ db' = r.d
    /\ UNCHANGED <<clock, ssh, tasks, http, twin, resolver, feed, matcher, svc>>
    /\ Spend

-----------------------------------------------------------------------------
(* SSH emulator: SSHHoneypotServer (authentication) and SSHHoneypotSession *)
(* (the pseudo-shell).  The callbacks run on one event loop; every         *)
(* asyncio.create_task adds a task that starts in creation order and then  *)
(* advances whenever the store call it awaits returns.                     *)

SshPeer == "ssh-peer"

CR == "\r"
LF == "\n"
DEL == "0x7f"
CtrlC == "0x03"
CtrlD == "0x04"
Whitespace == {" ", CR, LF, "\t"}

Exit == <<"e", "x", "i", "t">>
Logout == <<"l", "o", "g", "o", "u", "t">>
Whoami == <<"w", "h", "o", "a", "m", "i">>

\* The chunks a client sends in one data message
SshChunks ==
    { <<"a">>, <<"b">>, Exit, <<CR>>, <<LF>>, <<DEL>>, <<CtrlC>>, <<CtrlD>> }

\* The (username, password) pairs a client presents
SshLogins == { <<"root", "hunter2">>, <<"admin", "">> }

RECURSIVE Join(_)
\* "".join(chunks)
Join(chunks) == IF chunks = <<>> THEN <<>> ELSE Head(chunks) \o Join(Tail(chunks))

\* str.strip()
Strip(s) ==
    LET keep == {i \in 1..Len(s) : s[i] \notin Whitespace}
    IN IF keep = {} THEN <<>> ELSE SubSeq(s, Min(keep), Max(keep))

\* str.lower() on the characters the model sends
LowerChar(c) ==
    CASE c = "E" -> "e"
      [] c = "X" -> "x"
      [] OTHER -> c

LowerStr(s) == [i \in 1..Len(s) |-> LowerChar(s[i])]

\* str.split()[0] of a stripped, non-empty string
FirstWord(s) ==
    LET ws == {i \in 1..Len(s) : s[i] \in Whitespace}
    IN IF ws = {} THEN s ELSE SubSeq(s, 1, Min(ws) - 1)

\* The keys of fake_responses except exit and logout, with the answers
FakeResponses(k) ==
    CASE k = Whoami -> "root"
      [] k = <<"i", "d">> -> "uid=0(root) gid=0(root) groups=0(root)"
      [] k = <<"p", "w", "d">> -> "/root"
      [] k = <<"u", "n", "a", "m", "e">> -> "Linux"
      [] k = <<"u", "n", "a", "m", "e", " ", "-", "a">> -> "Linux honeypot"
      [] k = <<"h", "o", "s", "t", "n", "a", "m", "e">> -> "honeypot"
      [] k = <<"u", "p", "t", "i", "m", "e">> -> "up 127 days"
      [] k = <<"c", "a", "t", " ", "/", "e", "t", "c", "/", "p", "a", "s", "s", "w", "d">>
           -> "root:x:0:0"
      [] k = <<"l", "s">> -> "Desktop  Documents"
      [] k = <<"l", "s", " ", "-", "l", "a">> -> "total 32"
      [] k = <<"w">> -> "USER TTY FROM"
      [] OTHER -> Null

Builtins == { <<"c", "d">>, <<"e", "x", "p", "o", "r", "t">>,
              <<"s", "o", "u", "r", "c", "e">>, <<".">> }

\* _generate_fake_response: [eof |-> eof_received() is called, text |-> answer]
GenerateFakeResponse(command) ==
    LET cmd_lower == Strip(LowerStr(command))
        cmd_base == IF cmd_lower = <<>> THEN <<>> ELSE FirstWord(cmd_lower)
    IN IF cmd_lower \in {Exit, Logout} THEN [eof |-> TRUE, text |-> ""]
       ELSE IF FakeResponses(cmd_lower) # Null
       THEN [eof |-> FALSE, text |-> FakeResponses(cmd_lower)]
       ELSE IF FakeResponses(cmd_base) # Null
       THEN [eof |-> FALSE, text |-> FakeResponses(cmd_base)]
       ELSE IF cmd_base # <<>> /\ cmd_base \notin Builtins
       THEN [eof |-> FALSE, text |-> "-bash: command not found"]
       ELSE [eof |-> FALSE, text |-> ""]

SshInit ==
    [pc |-> "auth", link |-> "up", auth |-> Null, presented |-> Null,
     attack_id |-> NoId, session_id |-> NoId,
     commands |-> <<>>, chan |-> "none", out |-> <<>>,
     entered |-> <<>>, store_failed |-> FALSE, early |-> FALSE,
     aborted |-> FALSE, dropped |-> <<>>]

Task(kind, cmd) == [kind |-> kind, pc |-> "new", cmd |-> cmd, cmds |-> <<>>, t |-> NoTime]

\* An [h, q, d] triple: the SSH objects, the task queue and the store after a step
HQD(h, q, d) == [h |-> h, q |-> q, d |-> d]

Write(h, text) == [h EXCEPT !.out = Append(@, text)]

Prompt == <<"root@honeypot:~# ">>

\* Outcomes of the transaction of SSHHoneypotServer._record_attack: the flush
\* of the Attack raises, the commit (which also inserts the Credential)
\* raises, or the commit succeeds.
SshTxOutcomes == {"fail_attack", "fail_commit", "ok"}

\* A recording that commits the Attack on its own, before the Credential
SshRecordAttackSplit(h, d, username, password, o) ==
    LET aid == d.nextId
        failed == [h EXCEPT !.store_failed = TRUE]
    IN CASE o = "fail_attack" -> HD(failed, d)
         [] o = "fail_commit" ->
              HD([failed EXCEPT !.attack_id = aid],
                 [d EXCEPT !.attacks = @ \cup
                              {AttackRow(aid, SshPeer, "ssh", "credential_attack")},
                           !.nextId = aid + 2])
         [] OTHER ->
              HD([h EXCEPT !.attack_id = aid],
                 [d EXCEPT !.attacks = @ \cup
                              {AttackRow(aid, SshPeer, "ssh", "credential_attack")},
                           !.credentials = @ \cup
                              {CredentialRow(aid + 1, aid, username, password, TRUE)},
                           !.nextId = aid + 2])

SshRecordAttack(h, d, username, password, o) ==
    LET aid == d.nextId
        failed == [h EXCEPT !.store_failed = TRUE]
    IN CASE o = "fail_attack" -> HD(failed, d)
         [] o = "fail_commit" ->
              HD([failed EXCEPT !.attack_id = aid], [d EXCEPT !.nextId = aid + 2])
         [] OTHER ->
              HD([h EXCEPT !.attack_id = aid],
                 [d EXCEPT !.attacks = @ \cup
                              {AttackRow(aid, SshPeer, "ssh", "credential_attack")},
                           !.credentials = @ \cup
                              {CredentialRow(aid + 1, aid, username, password, TRUE)},
                           !.nextId = aid + 2])

\* validate_password: record, then return True
ValidatePassword(h, d, username, password, o) ==
    LET r == SshRecordAttack(h, d, username, password, o)
    IN HD([r.h EXCEPT !.auth = TRUE, !.pc = "authed",
                      !.presented = <<username, password>>], r.d)

\* eof_received: schedule _close_session, then write and close the channel.
\* Writing to a channel that is no longer open raises, after the task was
\* scheduled; `raised` tells the caller.
EofReceived(h, q) ==
    LET q1 == Append(q, Task("close", <<>>))
    IN IF h.chan = "open"
       THEN [h |-> [Write(h, <<"logout">>) EXCEPT !.chan = "closed"], q |-> q1,
             raised |-> FALSE]
       ELSE [h |-> h, q |-> q1, raised |-> TRUE]

\* data_received, data == "\r" or data == "\n": the buffer is one command
\* (`entered` lists the commands handed to _handle_command)
OnNewline(h, q) ==
    LET cmd == Strip(Join(h.commands))
        spawn == h.commands # <<>> /\ cmd # <<>>
        h2 == IF spawn
              THEN [h EXCEPT !.entered = Append(@, cmd),
                             !.early = @ \/ h.session_id = NoId]
              ELSE h
    IN [h |-> Write(Write([h2 EXCEPT !.commands = <<>>], <<CR, LF>>), Prompt),
        q |-> IF spawn THEN Append(q, Task("cmd", cmd)) ELSE q]

\* A backspace that erases on the terminal whatever the buffer holds
OnBackspaceErases(h, q) ==
    [h |-> Write([h EXCEPT !.commands = IF @ # <<>> THEN SubSeq(@, 1, Len(@) - 1)
                                         ELSE @],
                 <<"\\b \\b">>),
     q |-> q]

\* data_received, data == "\x7f"
OnBackspace(h, q) ==
    IF h.commands # <<>>
    THEN [h |-> Write([h EXCEPT !.commands = SubSeq(@, 1, Len(@) - 1)], <<"\\b \\b">>),
          q |-> q]
    ELSE [h |-> h, q |-> q]

\* A Ctrl-C that redraws the prompt and keeps the buffer
OnInterruptKeepsLine(h, q) ==
    [h |-> Write(Write(h, <<"^C", CR, LF>>), Prompt), q |-> q]

\* data_received, data == "\x03" (`dropped` is the buffer it discards)
OnInterrupt(h, q) ==
    [h |-> [Write(Write(h, <<"^C", CR, LF>>), Prompt)
              EXCEPT !.commands = <<>>, !.dropped = h.commands],
     q |-> q]

\* data_received: the echo, then the comparison of the whole chunk
DataReceived(h, q, data) ==
    LET h1 == [h EXCEPT !.out = <<data>>, !.dropped = <<>>]
    IN IF data = <<CR>> \/ data = <<LF>> THEN OnNewline(h1, q)
       ELSE IF data = <<DEL>> THEN OnBackspace(h1, q)
       ELSE IF data = <<CtrlC>> THEN OnInterrupt(h1, q)
       ELSE IF data = <<CtrlD>>
       THEN LET e == EofReceived(h1, q) IN [h |-> e.h, q |-> e.q]
       ELSE [h |-> [h1 EXCEPT !.commands = Append(@, data)], q |-> q]

RemoveAt(q, i) == SubSeq(q, 1, i - 1) \o SubSeq(q, i + 1, Len(q))

\* session_started: schedule _start_shell
SessionStarted(h, q) ==
    [h |-> [h EXCEPT !.pc = "shell", !.chan = "open", !.out = <<>>],
     q |-> Append(q, Task("shell", <<>>))]

Banner == <<"Welcome to Ubuntu 20.04.3 LTS">>

\* The end of _start_shell: the banner and the prompt (a write on a channel
\* that is no longer open raises and ends the task)
SendBanner(h) ==
    IF h.chan = "open" THEN Write(Write(h, Banner), Prompt)
    ELSE [h EXCEPT !.aborted = TRUE]

\* _close_session up to its first await
CloseSessionStart(h, q, i) ==
    IF h.session_id = NoId THEN [h |-> h, q |-> RemoveAt(q, i)]
    ELSE [h |-> h, q |-> [q EXCEPT ![i].pc = "get"]]

\* _start_shell up to its first await (in _create_session_record)
StartShellStart(h, q, i) ==
    IF h.attack_id = NoId THEN [h |-> SendBanner(h), q |-> RemoveAt(q, i)]
    ELSE [h |-> h, q |-> [q EXCEPT ![i].pc = "commit"]]

\* _handle_command up to its first await (in _record_command)
HandleCommandStart(h, q, i) ==
    LET cmd == q[i].cmd
        resp == GenerateFakeResponse(cmd)
        e == IF resp.eof THEN EofReceived(h, q)
             ELSE [h |-> h, q |-> q, raised |-> FALSE]
        raises == e.raised \/ (resp.text # "" /\ e.h.chan # "open")
        h1 == IF resp.text # "" /\ ~raises THEN Write(e.h, <<resp.text>>) ELSE e.h
    IN IF raises THEN [h |-> [h1 EXCEPT !.aborted = TRUE], q |-> RemoveAt(e.q, i)]
       ELSE IF h1.session_id = NoId THEN [h |-> h1, q |-> RemoveAt(e.q, i)]
       ELSE [h |-> h1, q |-> [e.q EXCEPT ![i].pc = "get"]]

\* A task's first run
TaskStart(h, q, i) ==
    LET h0 == [h EXCEPT !.out = <<>>]
    IN CASE q[i].kind = "shell" -> StartShellStart(h0, q, i)
         [] q[i].kind = "cmd" -> HandleCommandStart(h0, q, i)
         [] OTHER -> CloseSessionStart(h0, q, i)

\* _create_session_record: INSERT and commit the Session, then the banner
StartShellCommit(h, q, d, now, i, ok) ==
    LET sid == d.nextId
        d1 == [d EXCEPT !.nextId = sid + 1]
        h0 == [h EXCEPT !.out = <<>>]
    IN IF ok /\ ForeignKeyOk(d, h.attack_id)
       THEN HQD(SendBanner([h0 EXCEPT !.session_id = sid]), RemoveAt(q, i),
                PutSession(d1, sid, SessionRow(h.attack_id, now, <<>>)))
       ELSE HQD(SendBanner([h0 EXCEPT !.store_failed = TRUE]), RemoveAt(q, i), d1)

\* db_session.get(Session, self.session_id) returns: _record_command holds
\* the row it read (t: its end_time) and appends to its list, _close_session
\* takes the time
TaskGet(h, q, d, now, i, ok) ==
    IF ~ok \/ h.session_id \notin SessionIds(d)
    THEN HQD([h EXCEPT !.store_failed = @ \/ ~ok], RemoveAt(q, i), d)
    ELSE IF q[i].kind = "cmd"
    THEN HQD(h, [q EXCEPT ![i].pc = "commit",
                          ![i].cmds = Append(d.sessions[h.session_id].commands,
                                             q[i].cmd),
                          ![i].t = d.sessions[h.session_id].end_time], d)
    ELSE HQD(h, [q EXCEPT ![i].pc = "commit", ![i].t = now], d)

\* commit: UPDATE sessions SET <the assigned column> WHERE id = session_id
TaskCommit(h, q, d, i, ok) ==
    IF ~ok THEN HQD([h EXCEPT !.store_failed = TRUE], RemoveAt(q, i), d)
    ELSE IF q[i].kind = "cmd"
    THEN HQD(h, RemoveAt(q, i), [d EXCEPT !.sessions[h.session_id].commands = q[i].cmds])
    ELSE HQD(h, RemoveAt(q, i), [d EXCEPT !.sessions[h.session_id].end_time = q[i].t])

\* The first task that has not started yet (asyncio starts tasks in order)
NewTasks(q) == {i \in 1..Len(q) : q[i].pc = "new"}

SshAuth ==
    /\ ssh.pc = "auth" /\ ssh.link = "up"
    /\ db.nextId + 1 <= MaxIds
    /\ \E l \in SshLogins, o \in SshTxOutcomes :
         LET r == ValidatePassword(ssh, db, l[1], l[2], o)
         IN ssh' = r.h /\ db' = r.d
    /\ UNCHANGED <<clock, tasks, ftp, http, twin, resolver, feed, matcher, svc>>
    /\ Spend

SshOpenShell ==
    /\ ssh.pc = "authed" /\ ssh.link = "up"
    /\ LET r == SessionStarted(ssh, tasks)
       IN ssh' = r.h /\ tasks' = r.q
    /\ UNCHANGED <<db, clock, ftp, http, twin, resolver, feed, matcher, svc>>
    /\ Spend

SshData ==
    /\ ssh.pc = "shell" /\ ssh.link = "up" /\ ssh.chan = "open"
    /\ \E data \in SshChunks :
         /\ data \in {<<CR>>, <<LF>>} => Len(ssh.entered) < MaxCmds
         /\ data \notin {<<CR>>, <<LF>>, <<DEL>>, <<CtrlC>>, <<CtrlD>>}
               => Len(ssh.commands) < MaxLine
         /\ LET r == DataReceived(ssh, tasks, data)
            IN ssh' = r.h /\ tasks' = r.q
    /\ UNCHANGED <<db, clock, ftp, http, twin, resolver, feed, matcher, svc>>
    /\ Spend

\* The client half-closes the channel: asyncssh calls eof_received
SshEof ==
    /\ ssh.pc = "shell" /\ ssh.link = "up" /\ ssh.chan = "open"
    /\ LET r == EofReceived([ssh EXCEPT !.out = <<>>], tasks)
       IN ssh' = r.h /\ tasks' = r.q
    /\ UNCHANGED <<db, clock, ftp, http, twin, resolver, feed, matcher, svc>>
    /\ Spend

\* The transport is lost with no EOF: SSHHoneypotSession has no
\* connection_lost, so nothing is scheduled; the channel is gone.
SshDrop ==
    /\ ssh.link = "up"
    /\ ssh' = [ssh EXCEPT !.link = "lost", !.out = <<>>,
                          !.chan = IF @ = "none" THEN "none" ELSE "closed"]
    /\ UNCHANGED <<db, clock, tasks, ftp, http, twin, resolver, feed, matcher, svc>>
    /\ Spend

SshTaskStart ==
    /\ NewTasks(tasks) # {}
    /\ LET r == TaskStart(ssh, tasks, Min(NewTasks(tasks)))
       IN ssh' = r.h /\ tasks' = r.q
    /\ UNCHANGED <<db, clock, ftp, http, twin, resolver, feed, matcher, svc>>
    /\ Spend

SshShellCommit ==
    /\ db.nextId <= MaxIds
    /\ \E i \in 1..Len(tasks), ok \in BOOLEAN :
         /\ tasks[i].kind = "shell" /\ tasks[i].pc = "commit"
         /\ LET r == StartShellCommit(ssh, tasks, db, clock, i, ok)
            IN ssh' = r.h /\ tasks' = r.q /\ db' = r.d
    /\ UNCHANGED <<clock, ftp, http, twin, resolver, feed, matcher, svc>>
    /\ Spend

SshTaskGet ==
    /\ \E i \in 1..Len(tasks), ok \in BOOLEAN :
         /\ tasks[i].pc = "get"
         /\ LET r == TaskGet(ssh, tasks, db, clock, i, ok)
            IN ssh' = r.h /\ tasks' = r.q /\ db' = r.d
    /\ UNCHANGED <<clock, ftp, http, twin, resolver, feed, matcher, svc>>
    /\ Spend

SshTaskCommit ==
    /\ \E i \in 1..Len(tasks), ok \in BOOLEAN :
         /\ tasks[i].kind # "shell" /\ tasks[i].pc = "commit"
         /\ LET r == TaskCommit(ssh, tasks, db, i, ok)
            IN ssh' = r.h /\ tasks' = r.q /\ db' = r.d
    /\ UNCHANGED <<clock, ftp, http, twin, resolver, feed, matcher, svc>>
    /\ Spend

-----------------------------------------------------------------------------
(* Pattern matcher: HTTPHoneypot._detect_threat over ATTACK_PATTERNS.  A   *)
(* pattern is a sequence of elements, a literal or a run of characters of  *)
(* a class; re.search looks for it at every position.  The backquote is    *)
(* written "0x60".                                                         *)

WordChars == {"a", "b", "c", "d", "e", "f", "g", "h", "i", "j", "k", "l", "m", "n", "o", "p", "q", "r", "s", "t", "u", "v", "w", "x", "y", "z", "0", "1", "2", "3", "4", "5", "6", "7", "8", "9", "_"}

InClass(c, class) ==
    CASE class = "word" -> c \in WordChars
      [] class = "space" -> c \in {" ", "\t", "\n", "\r"}
      [] class = "notnl" -> c # "\n"
      [] class = "notgt" -> c # ">"
      [] class = "notbt" -> c # "0x60"
      [] class = "notrp" -> c # ")"
      [] OTHER -> FALSE

RECURSIVE MatchAt(_, _, _, _)
\* pattern elements j.. match text at position i
MatchAt(text, i, pat, j) ==
    IF j > Len(pat) THEN TRUE
    ELSE LET e == pat[j]
         IN IF e.kind = "lit"
            THEN /\ i + Len(e.s) - 1 <= Len(text)
                 /\ SubSeq(text, i, i + Len(e.s) - 1) = e.s
                 /\ MatchAt(text, i + Len(e.s), pat, j + 1)
            ELSE \E k \in e.min..(Len(text) - i + 1) :
                   /\ \A m \in i..(i + k - 1) : InClass(text[m], e.class)
                   /\ MatchAt(text, i + k, pat, j + 1)

\* re.search(pattern, text)
Search(pat, text) == \E i \in 1..(Len(text) + 1) : MatchAt(text, i, pat, 1)

\* ATTACK_PATTERNS["sql_injection"]: every alternative of every pattern
SqlInjectionPatterns ==
    {
      <<[kind |-> "lit", s |-> <<"%", "2", "7">>, min |-> 0, class |-> ""]>>,
      <<[kind |-> "lit", s |-> <<"'">>, min |-> 0, class |-> ""]>>,
      <<[kind |-> "lit", s |-> <<"-", "-">>, min |-> 0, class |-> ""]>>,
      <<[kind |-> "lit", s |-> <<"%", "2", "3">>, min |-> 0, class |-> ""]>>,
      <<[kind |-> "lit", s |-> <<"#">>, min |-> 0, class |-> ""]>>,
      <<[kind |-> "lit", s |-> <<"%", "3", "d">>, min |-> 0, class |-> ""],
        [kind |-> "many", s |-> <<>>, min |-> 0, class |-> "notnl"],
        [kind |-> "lit", s |-> <<"%", "2", "7">>, min |-> 0, class |-> ""]>>,
      <<[kind |-> "lit", s |-> <<"%", "3", "d">>, min |-> 0, class |-> ""],
        [kind |-> "many", s |-> <<>>, min |-> 0, class |-> "notnl"],
        [kind |-> "lit", s |-> <<"'">>, min |-> 0, class |-> ""]>>,
      <<[kind |-> "lit", s |-> <<"%", "3", "d">>, min |-> 0, class |-> ""],
        [kind |-> "many", s |-> <<>>, min |-> 0, class |-> "notnl"],
        [kind |-> "lit", s |-> <<"-", "-">>, min |-> 0, class |-> ""]>>,
      <<[kind |-> "lit", s |-> <<"%", "3", "d">>, min |-> 0, class |-> ""],
        [kind |-> "many", s |-> <<>>, min |-> 0, class |-> "notnl"],
        [kind |-> "lit", s |-> <<"%", "3", "b">>, min |-> 0, class |-> ""]>>,
      <<[kind |-> "lit", s |-> <<"%", "3", "d">>, min |-> 0, class |-> ""],
        [kind |-> "many", s |-> <<>>, min |-> 0, class |-> "notnl"],
        [kind |-> "lit", s |-> <<";">>, min |-> 0, class |-> ""]>>,
      <<[kind |-> "lit", s |-> <<"=">>, min |-> 0, class |-> ""],
        [kind |-> "many", s |-> <<>>, min |-> 0, class |-> "notnl"],
        [kind |-> "lit", s |-> <<"%", "2", "7">>, min |-> 0, class |-> ""]>>,
      <<[kind |-> "lit", s |-> <<"=">>, min |-> 0, class |-> ""],
        [kind |-> "many", s |-> <<>>, min |-> 0, class |-> "notnl"],
        [kind |-> "lit", s |-> <<"'">>, min |-> 0, class |-> ""]>>,
      <<[kind |-> "lit", s |-> <<"=">>, min |-> 0, class |-> ""],
        [kind |-> "many", s |-> <<>>, min |-> 0, class |-> "notnl"],
        [kind |-> "lit", s |-> <<"-", "-">>, min |-> 0, class |-> ""]>>,
      <<[kind |-> "lit", s |-> <<"=">>, min |-> 0, class |-> ""],
        [kind |-> "many", s |-> <<>>, min |-> 0, class |-> "notnl"],
        [kind |-> "lit", s |-> <<"%", "3", "b">>, min |-> 0, class |-> ""]>>,
      <<[kind |-> "lit", s |-> <<"=">>, min |-> 0, class |-> ""],
        [kind |-> "many", s |-> <<>>, min |-> 0, class |-> "notnl"],
        [kind |-> "lit", s |-> <<";">>, min |-> 0, class |-> ""]>>,
      <<[kind |-> "many", s |-> <<>>, min |-> 0, class |-> "word"],
        [kind |-> "lit", s |-> <<"%", "2", "7">>, min |-> 0, class |-> ""],
        [kind |-> "lit", s |-> <<"%", "6", "f">>, min |-> 0, class |-> ""],
        [kind |-> "lit", s |-> <<"%", "7", "2">>, min |-> 0, class |-> ""]>>,
      <<[kind |-> "many", s |-> <<>>, min |-> 0, class |-> "word"],
        [kind |-> "lit", s |-> <<"%", "2", "7">>, min |-> 0, class |-> ""],
        [kind |-> "lit", s |-> <<"%", "6", "f">>, min |-> 0, class |-> ""],
        [kind |-> "lit", s |-> <<"r">>, min |-> 0, class |-> ""]>>,
      <<[kind |-> "many", s |-> <<>>, min |-> 0, class |-> "word"],
        [kind |-> "lit", s |-> <<"%", "2", "7">>, min |-> 0, class |-> ""],
        [kind |-> "lit", s |-> <<"%", "6", "f">>, min |-> 0, class |-> ""],
        [kind |-> "lit", s |-> <<"%", "5", "2">>, min |-> 0, class |-> ""]>>,
      <<[kind |-> "many", s |-> <<>>, min |-> 0, class |-> "word"],
        [kind |-> "lit", s |-> <<"%", "2", "7">>, min |-> 0, class |-> ""],
        [kind |-> "lit", s |-> <<"o">>, min |-> 0, class |-> ""],
        [kind |-> "lit", s |-> <<"%", "7", "2">>, min |-> 0, class |-> ""]>>,
      <<[kind |-> "many", s |-> <<>>, min |-> 0, class |-> "word"],
        [kind |-> "lit", s |-> <<"%", "2", "7">>, min |-> 0, class |-> ""],
        [kind |-> "lit", s |-> <<"o">>, min |-> 0, class |-> ""],
        [kind |-> "lit", s |-> <<"r">>, min |-> 0, class |-> ""]>>,
      <<[kind |-> "many", s |-> <<>>, min |-> 0, class |-> "word"],
        [kind |-> "lit", s |-> <<"%", "2", "7">>, min |-> 0, class |-> ""],
        [kind |-> "lit", s |-> <<"o">>, min |-> 0, class |-> ""],
        [kind |-> "lit", s |-> <<"%", "5", "2">>, min |-> 0, class |-> ""]>>,
      <<[kind |-> "many", s |-> <<>>, min |-> 0, class |-> "word"],
        [kind |-> "lit", s |-> <<"%", "2", "7">>, min |-> 0, class |-> ""],
        [kind |-> "lit", s |-> <<"%", "4", "f">>, min |-> 0, class |-> ""],
        [kind |-> "lit", s |-> <<"%", "7", "2">>, min |-> 0, class |-> ""]>>,
      <<[kind |-> "many", s |-> <<>>, min |-> 0, class |-> "word"],
        [kind |-> "lit", s |-> <<"%", "2", "7">>, min |-> 0, class |-> ""],
        [kind |-> "lit", s |-> <<"%", "4", "f">>, min |-> 0, class |-> ""],
        [kind |-> "lit", s |-> <<"r">>, min |-> 0, class |-> ""]>>,
      <<[kind |-> "many", s |-> <<>>, min |-> 0, class |-> "word"],
        [kind |-> "lit", s |-> <<"%", "2", "7">>, min |-> 0, class |-> ""],
        [kind |-> "lit", s |-> <<"%", "4", "f">>, min |-> 0, class |-> ""],
        [kind |-> "lit", s |-> <<"%", "5", "2">>, min |-> 0, class |-> ""]>>,
      <<[kind |-> "many", s |-> <<>>, min |-> 0, class |-> "word"],
        [kind |-> "lit", s |-> <<"'">>, min |-> 0, class |-> ""],
        [kind |-> "lit", s |-> <<"%", "6", "f">>, min |-> 0, class |-> ""],
        [kind |-> "lit", s |-> <<"%", "7", "2">>, min |-> 0, class |-> ""]>>,
      <<[kind |-> "many", s |-> <<>>, min |-> 0, class |-> "word"],
        [kind |-> "lit", s |-> <<"'">>, min |-> 0, class |-> ""],
        [kind |-> "lit", s |-> <<"%", "6", "f">>, min |-> 0, class |-> ""],
        [kind |-> "lit", s |-> <<"r">>, min |-> 0, class |-> ""]>>,
      <<[kind |-> "many", s |-> <<>>, min |-> 0, class |-> "word"],
        [kind |-> "lit", s |-> <<"'">>, min |-> 0, class |-> ""],
        [kind |-> "lit", s |-> <<"%", "6", "f">>, min |-> 0, class |-> ""],
        [kind |-> "lit", s |-> <<"%", "5", "2">>, min |-> 0, class |-> ""]>>,
      <<[kind |-> "many", s |-> <<>>, min |-> 0, class |-> "word"],
        [kind |-> "lit", s |-> <<"'">>, min |-> 0, class |-> ""],
        [kind |-> "lit", s |-> <<"o">>, min |-> 0, class |-> ""],
        [kind |-> "lit", s |-> <<"%", "7", "2">>, min |-> 0, class |-> ""]>>,
      <<[kind |-> "many", s |-> <<>>, min |-> 0, class |-> "word"],
        [kind |-> "lit", s |-> <<"'">>, min |-> 0, class |-> ""],
        [kind |-> "lit", s |-> <<"o">>, min |-> 0, class |-> ""],
        [kind |-> "lit", s |-> <<"r">>, min |-> 0, class |-> ""]>>,
      <<[kind |-> "many", s |-> <<>>, min |-> 0, class |-> "word"],
        [kind |-> "lit", s |-> <<"'">>, min |-> 0, class |-> ""],
        [kind |-> "lit", s |-> <<"o">>, min |-> 0, class |-> ""],
        [kind |-> "lit", s |-> <<"%", "5", "2">>, min |-> 0, class |-> ""]>>,
      <<[kind |-> "many", s |-> <<>>, min |-> 0, class |-> "word"],
        [kind |-> "lit", s |-> <<"'">>, min |-> 0, class |-> ""],
        [kind |-> "lit", s |-> <<"%", "4", "f">>, min |-> 0, class |-> ""],
        [kind |-> "lit", s |-> <<"%", "7", "2">>, min |-> 0, class |-> ""]>>,
      <<[kind |-> "many", s |-> <<>>, min |-> 0, class |-> "word"],
        [kind |-> "lit", s |-> <<"'">>, min |-> 0, class |-> ""],
        [kind |-> "lit", s |-> <<"%", "4", "f">>, min |-> 0, class |-> ""],
        [kind |-> "lit", s |-> <<"r">>, min |-> 0, class |-> ""]>>,
      <<[kind |-> "many", s |-> <<>>, min |-> 0, class |-> "word"],
        [kind |-> "lit", s |-> <<"'">>, min |-> 0, class |-> ""],
        [kind |-> "lit", s |-> <<"%", "4", "f">>, min |-> 0, class |-> ""],
        [kind |-> "lit", s |-> <<"%", "5", "2">>, min |-> 0, class |-> ""]>>,
      <<[kind |-> "lit", s |-> <<"u", "n", "i", "o", "n">>, min |-> 0, class |-> ""],
        [kind |-> "many", s |-> <<>>, min |-> 0, class |-> "notnl"],
        [kind |-> "lit", s |-> <<"s", "e", "l", "e", "c", "t">>, min |-> 0, class |-> ""]>>,
      <<[kind |-> "lit", s |-> <<"s", "e", "l", "e", "c", "t">>, min |-> 0, class |-> ""],
        [kind |-> "many", s |-> <<>>, min |-> 0, class |-> "notnl"],
        [kind |-> "lit", s |-> <<"f", "r", "o", "m">>, min |-> 0, class |-> ""]>>,
      <<[kind |-> "lit", s |-> <<"i", "n", "s", "e", "r", "t">>, min |-> 0, class |-> ""],
        [kind |-> "many", s |-> <<>>, min |-> 0, class |-> "notnl"],
        [kind |-> "lit", s |-> <<"i", "n", "t", "o">>, min |-> 0, class |-> ""]>>,
      <<[kind |-> "lit", s |-> <<"d", "r", "o", "p">>, min |-> 0, class |-> ""],
        [kind |-> "many", s |-> <<>>, min |-> 0, class |-> "notnl"],
        [kind |-> "lit", s |-> <<"t", "a", "b", "l", "e">>, min |-> 0, class |-> ""]>>,
      <<[kind |-> "lit", s |-> <<"u", "p", "d", "a", "t", "e">>, min |-> 0, class |-> ""],
        [kind |-> "many", s |-> <<>>, min |-> 0, class |-> "notnl"],
        [kind |-> "lit", s |-> <<"s", "e", "t">>, min |-> 0, class |-> ""]>>,
      <<[kind |-> "lit", s |-> <<"d", "e", "l", "e", "t", "e">>, min |-> 0, class |-> ""],
        [kind |-> "many", s |-> <<>>, min |-> 0, class |-> "notnl"],
        [kind |-> "lit", s |-> <<"f", "r", "o", "m">>, min |-> 0, class |-> ""]>>
    }

\* ATTACK_PATTERNS["xss"]: every alternative of every pattern
XssPatterns ==
    {
      <<[kind |-> "lit", s |-> <<"<", "s", "c", "r", "i", "p", "t">>, min |-> 0, class |-> ""],
        [kind |-> "many", s |-> <<>>, min |-> 0, class |-> "notgt"],
        [kind |-> "lit", s |-> <<">">>, min |-> 0, class |-> ""]>>,
      <<[kind |-> "lit", s |-> <<"j", "a", "v", "a", "s", "c", "r", "i", "p", "t", ":">>, min |-> 0, class |-> ""]>>,
      <<[kind |-> "lit", s |-> <<"o", "n">>, min |-> 0, class |-> ""],
        [kind |-> "many", s |-> <<>>, min |-> 1, class |-> "word"],
        [kind |-> "many", s |-> <<>>, min |-> 0, class |-> "space"],
        [kind |-> "lit", s |-> <<"=">>, min |-> 0, class |-> ""]>>,
      <<[kind |-> "lit", s |-> <<"<", "i", "m", "g">>, min |-> 0, class |-> ""],
        [kind |-> "many", s |-> <<>>, min |-> 1, class |-> "notgt"],
        [kind |-> "lit", s |-> <<"o", "n", "e", "r", "r", "o", "r">>, min |-> 0, class |-> ""]>>,
      <<[kind |-> "lit", s |-> <<"<", "s", "v", "g">>, min |-> 0, class |-> ""],
        [kind |-> "many", s |-> <<>>, min |-> 1, class |-> "notgt"],
        [kind |-> "lit", s |-> <<"o", "n", "l", "o", "a", "d">>, min |-> 0, class |-> ""]>>
    }

\* ATTACK_PATTERNS["path_traversal"]: every alternative of every pattern
PathTraversalPatterns ==
    {
      <<[kind |-> "lit", s |-> <<".", ".", "/">>, min |-> 0, class |-> ""]>>,
      <<[kind |-> "lit", s |-> <<".", ".", "\\">>, min |-> 0, class |-> ""]>>,
      <<[kind |-> "lit", s |-> <<"%", "2", "e", "%", "2", "e", "%", "2", "f">>, min |-> 0, class |-> ""]>>,
      <<[kind |-> "lit", s |-> <<"%", "2", "e", "%", "2", "e", "/">>, min |-> 0, class |-> ""]>>,
      <<[kind |-> "lit", s |-> <<".", ".", "%", "2", "f">>, min |-> 0, class |-> ""]>>,
      <<[kind |-> "lit", s |-> <<"/", "e", "t", "c", "/", "p", "a", "s", "s", "w", "d">>, min |-> 0, class |-> ""]>>,
      <<[kind |-> "lit", s |-> <<"/", "e", "t", "c", "/", "s", "h", "a", "d", "o", "w">>, min |-> 0, class |-> ""]>>,
      <<[kind |-> "lit", s |-> <<"c", ":", "\\", "w", "i", "n", "d", "o", "w", "s">>, min |-> 0, class |-> ""]>>
    }

\* ATTACK_PATTERNS["command_injection"]: every alternative of every pattern
CommandInjectionPatterns ==
    {
      <<[kind |-> "lit", s |-> <<";">>, min |-> 0, class |-> ""],
        [kind |-> "many", s |-> <<>>, min |-> 0, class |-> "space"],
        [kind |-> "many", s |-> <<>>, min |-> 1, class |-> "word"]>>,
      <<[kind |-> "lit", s |-> <<"|">>, min |-> 0, class |-> ""],
        [kind |-> "many", s |-> <<>>, min |-> 0, class |-> "space"],
        [kind |-> "many", s |-> <<>>, min |-> 1, class |-> "word"]>>,
      <<[kind |-> "lit", s |-> <<"0x60">>, min |-> 0, class |-> ""],
        [kind |-> "many", s |-> <<>>, min |-> 1, class |-> "notbt"],
        [kind |-> "lit", s |-> <<"0x60">>, min |-> 0, class |-> ""]>>,
      <<[kind |-> "lit", s |-> <<"$", "(">>, min |-> 0, class |-> ""],
        [kind |-> "many", s |-> <<>>, min |-> 1, class |-> "notrp"],
        [kind |-> "lit", s |-> <<")">>, min |-> 0, class |-> ""]>>,
      <<[kind |-> "lit", s |-> <<"&", "&">>, min |-> 0, class |-> ""],
        [kind |-> "many", s |-> <<>>, min |-> 0, class |-> "space"],
        [kind |-> "many", s |-> <<>>, min |-> 1, class |-> "word"]>>
    }

\* ATTACK_PATTERNS["lfi_rfi"]: every alternative of every pattern
LfiRfiPatterns ==
    {
      <<[kind |-> "lit", s |-> <<"f", "i", "l", "e">>, min |-> 0, class |-> ""],
        [kind |-> "lit", s |-> <<":", "/", "/">>, min |-> 0, class |-> ""]>>,
      <<[kind |-> "lit", s |-> <<"p", "h", "p">>, min |-> 0, class |-> ""],
        [kind |-> "lit", s |-> <<":", "/", "/">>, min |-> 0, class |-> ""]>>,
      <<[kind |-> "lit", s |-> <<"z", "i", "p">>, min |-> 0, class |-> ""],
        [kind |-> "lit", s |-> <<":", "/", "/">>, min |-> 0, class |-> ""]>>,
      <<[kind |-> "lit", s |-> <<"d", "a", "t", "a">>, min |-> 0, class |-> ""],
        [kind |-> "lit", s |-> <<":", "/", "/">>, min |-> 0, class |-> ""]>>,
      <<[kind |-> "lit", s |-> <<"e", "x", "p", "e", "c", "t">>, min |-> 0, class |-> ""],
        [kind |-> "lit", s |-> <<":", "/", "/">>, min |-> 0, class |-> ""]>>,
      <<[kind |-> "lit", s |-> <<"i", "n", "p", "u", "t">>, min |-> 0, class |-> ""],
        [kind |-> "lit", s |-> <<":", "/", "/">>, min |-> 0, class |-> ""]>>,
      <<[kind |-> "lit", s |-> <<"p", "h", "a", "r">>, min |-> 0, class |-> ""],
        [kind |-> "lit", s |-> <<":", "/", "/">>, min |-> 0, class |-> ""]>>,
      <<[kind |-> "lit", s |-> <<".", "p", "h", "p", "?">>, min |-> 0, class |-> ""]>>,
      <<[kind |-> "lit", s |-> <<"i", "n", "c", "l", "u", "d", "e">>, min |-> 0, class |-> ""],
        [kind |-> "many", s |-> <<>>, min |-> 0, class |-> "space"],
        [kind |-> "lit", s |-> <<"(">>, min |-> 0, class |-> ""]>>,
      <<[kind |-> "lit", s |-> <<"r", "e", "q", "u", "i", "r", "e">>, min |-> 0, class |-> ""],
        [kind |-> "many", s |-> <<>>, min |-> 0, class |-> "space"],
        [kind |-> "lit", s |-> <<"(">>, min |-> 0, class |-> ""]>>
    }

\* SUSPICIOUS_PATHS
SuspiciousPaths ==
    { <<"/", "w", "p", "-", "a", "d", "m", "i", "n">>,
      <<"/", "w", "p", "-", "l", "o", "g", "i", "n", ".", "p", "h", "p">>,
      <<"/", "a", "d", "m", "i", "n", "i", "s", "t", "r", "a", "t", "o", "r">>,
      <<"/", "a", "d", "m", "i", "n">>,
      <<"/", "p", "h", "p", "m", "y", "a", "d", "m", "i", "n">>,
      <<"/", "m", "y", "s", "q", "l">>,
      <<"/", ".", "g", "i", "t">>,
      <<"/", ".", "e", "n", "v">>,
      <<"/", "c", "o", "n", "f", "i", "g">>,
      <<"/", "b", "a", "c", "k", "u", "p">>,
      <<"/", ".", "h", "t", "a", "c", "c", "e", "s", "s">>,
      <<"/", "w", "p", "-", "c", "o", "n", "f", "i", "g", ".", "p", "h", "p">>,
      <<"/", "x", "m", "l", "r", "p", "c", ".", "p", "h", "p">>,
      <<"/", "s", "h", "e", "l", "l">>,
      <<"/", "c", "m", "d">>,
      <<"/", "e", "v", "a", "l">>,
      <<"/", "a", "p", "i", "/", "v", "1">>,
      <<"/", "g", "r", "a", "p", "h", "q", "l">>,
      <<"/", ".", "w", "e", "l", "l", "-", "k", "n", "o", "w", "n">>,
      <<"/", "r", "o", "b", "o", "t", "s", ".", "t", "x", "t">>,
      <<"/", "s", "i", "t", "e", "m", "a", "p", ".", "x", "m", "l">> }

ScannerSignatures ==
    { <<"n", "i", "k", "t", "o">>,
      <<"s", "q", "l", "m", "a", "p">>,
      <<"n", "m", "a", "p">>,
      <<"m", "a", "s", "s", "c", "a", "n">>,
      <<"z", "g", "r", "a", "b">>,
      <<"g", "o", "b", "u", "s", "t", "e", "r">>,
      <<"d", "i", "r", "b", "u", "s", "t", "e", "r">>,
      <<"w", "f", "u", "z", "z">>,
      <<"b", "u", "r", "p">>,
      <<"a", "c", "u", "n", "e", "t", "i", "x">>,
      <<"n", "e", "s", "s", "u", "s">>,
      <<"q", "u", "a", "l", "y", "s">>,
      <<"o", "p", "e", "n", "v", "a", "s">>,
      <<"w", "3", "a", "f">>,
      <<"s", "k", "i", "p", "f", "i", "s", "h">> }

\* str.startswith
StartsWith(text, prefix) ==
    Len(prefix) <= Len(text) /\ SubSeq(text, 1, Len(prefix)) = prefix

\* `needle in text`
Contains(text, needle) ==
    \E i \in 1..(Len(text) - Len(needle) + 1) :
        SubSeq(text, i, i + Len(needle) - 1) = needle

\* str.lower()
LowerAscii(c) ==
    CASE c = "A" -> "a"
      [] c = "B" -> "b"
      [] c = "C" -> "c"
      [] c = "D" -> "d"
      [] c = "E" -> "e"
      [] c = "F" -> "f"
      [] c = "G" -> "g"
      [] c = "H" -> "h"
      [] c = "I" -> "i"
      [] c = "J" -> "j"
      [] c = "K" -> "k"
      [] c = "L" -> "l"
      [] c = "M" -> "m"
      [] c = "N" -> "n"
      [] c = "O" -> "o"
      [] c = "P" -> "p"
      [] c = "Q" -> "q"
      [] c = "R" -> "r"
      [] c = "S" -> "s"
      [] c = "T" -> "t"
      [] c = "U" -> "u"
      [] c = "V" -> "v"
      [] c = "W" -> "w"
      [] c = "X" -> "x"
      [] c = "Y" -> "y"
      [] c = "Z" -> "z"
      [] OTHER -> c

ToLower(text) == [i \in 1..Len(text) |-> LowerAscii(text[i])]

\* path?query, and the body after a space when there is one, in lower case
Combined(req) ==
    ToLower(req.path) \o <<"?">> \o ToLower(req.query) \o
    (IF req.body # <<>> THEN <<" ">> \o ToLower(req.body) ELSE <<>>)

\* Some pattern of the family is found in the text
Hit(family, text) == \E pat \in family : Search(pat, text)

\* The checks of _detect_threat after the pattern families
DetectProbing(req) ==
    IF \E sp \in SuspiciousPaths : StartsWith(ToLower(req.path), ToLower(sp))
    THEN "reconnaissance"
    ELSE IF \E sig \in ScannerSignatures : Contains(ToLower(req.user_agent), sig)
    THEN "scanner"
    ELSE "probe"

\* A matcher that looks at the sensitive paths before the pattern families
DetectThreatPathsFirst(req) ==
    IF DetectProbing(req) = "reconnaissance" THEN "reconnaissance"
    ELSE IF Hit(SqlInjectionPatterns, Combined(req)) THEN "sql_injection"
    ELSE IF Hit(XssPatterns, Combined(req)) THEN "xss"
    ELSE IF Hit(PathTraversalPatterns, Combined(req)) THEN "path_traversal"
    ELSE IF Hit(CommandInjectionPatterns, Combined(req)) THEN "command_injection"
    ELSE IF Hit(LfiRfiPatterns, Combined(req)) THEN "lfi_rfi"
    ELSE DetectProbing(req)

\* _detect_threat: the families in the order of the dict, then the paths,
\* then the scanners
DetectThreat(req) ==
    IF Hit(SqlInjectionPatterns, Combined(req)) THEN "sql_injection"
    ELSE IF Hit(XssPatterns, Combined(req)) THEN "xss"
    ELSE IF Hit(PathTraversalPatterns, Combined(req)) THEN "path_traversal"
    ELSE IF Hit(CommandInjectionPatterns, Combined(req)) THEN "command_injection"
    ELSE IF Hit(LfiRfiPatterns, Combined(req)) THEN "lfi_rfi"
    ELSE DetectProbing(req)

-----------------------------------------------------------------------------
(* The pattern matcher on its own: one request summary, labelled twice *)

\* One piece of text for each family of ATTACK_PATTERNS
AttackFragments ==
    { <<"'">>,
      <<"<", "s", "c", "r", "i", "p", "t", ">">>,
      <<".", ".", "/">>,
      <<"|", "l", "s">>,
      <<"f", "i", "l", "e", ":", "/", "/">> }

\* Query strings: up to MaxFrags fragments one after the other
MatcherQueries ==
    { Join(fs) : fs \in UNION { [1..n -> AttackFragments] : n \in 0..MaxFrags } }

\* Paths: every sensitive path, one in capitals, the home page and a page
\* that does not exist
MatcherPaths ==
    SuspiciousPaths \cup
    { <<"/">>, <<"/", "n", "o", "p", "e">>,
      <<"/", "W", "P", "-", "A", "d", "m", "i", "n">> }

MatcherAgents ==
    { <<"M", "o", "z", "i", "l", "l", "a", "/", "5", ".", "0">>,
      <<"s", "q", "l", "m", "a", "p", "/", "1", ".", "5", ".", "2">> }

\* The body is read for POST requests only
MatcherRequest(p, q, b, ua) ==
    [method |-> IF b = <<>> THEN "GET" ELSE "POST",
     path |-> p, query |-> q, body |-> b, user_agent |-> ua,
     log |-> "", pwd |-> "", forwarded |-> Null, real_ip |-> Null]

\* Every path without a query, and three of the paths with every query
MatcherRequests ==
    { MatcherRequest(p, <<>>, b, ua)
        : p \in MatcherPaths,
          b \in {<<>>, <<"<", "s", "c", "r", "i", "p", "t", ">">>},
          ua \in MatcherAgents }
    \cup
    { MatcherRequest(p, q, b, ua)
        : p \in { <<"/">>, <<"/", "n", "o", "p", "e">>,
                  <<"/", "w", "p", "-", "a", "d", "m", "i", "n">> },
          q \in MatcherQueries,
          b \in {<<>>, <<"<", "s", "c", "r", "i", "p", "t", ">">>},
          ua \in MatcherAgents }

MatcherInit ==
    { [pc |-> "called", req |-> req, threat_type |-> Null, again |-> Null]
        : req \in MatcherRequests }

\* No request is being labelled
MatcherIdle == [pc |-> "idle", req |-> Null, threat_type |-> Null, again |-> Null]

\* threat_type = await self._detect_threat(request, body)
Detect ==
    /\ matcher.pc = "called"
    /\ matcher' = [matcher EXCEPT !.pc = "labelled",
                                  !.threat_type = DetectThreat(matcher.req)]
    /\ UNCHANGED <<db, clock, ftp, ssh, tasks, http, twin, resolver, feed, svc>>
    /\ Spend

\* The same request arrives once more
DetectAgain ==
    /\ matcher.pc = "labelled"
    /\ matcher' = [matcher EXCEPT !.pc = "done",
                                  !.again = DetectThreat(matcher.req)]
    /\ UNCHANGED <<db, clock, ftp, ssh, tasks, http, twin, resolver, feed, svc>>
    /\ Spend

-----------------------------------------------------------------------------
(* HTTP emulator: HTTPHoneypot.  A request is logged by the middleware and *)
(* then dispatched to its route handler; requests of different peers       *)
(* interleave between the two.                                             *)

\* The requests the clients send (forms already parsed: log, pwd)
HttpRequests ==
    {
      [method |-> "GET", path |-> <<"/">>, query |-> <<>>,
       body |-> <<>>, user_agent |-> <<"M", "o", "z", "i", "l", "l", "a", "/", "5", ".", "0">>,
       log |-> "", pwd |-> "", forwarded |-> Null, real_ip |-> Null],
      [method |-> "POST", path |-> <<"/", "w", "p", "-", "l", "o", "g", "i", "n", ".", "p", "h", "p">>, query |-> <<>>,
       body |-> <<"l", "o", "g", "=", "a", "d", "m", "i", "n", "&", "p", "w", "d", "=", "s", "3", "c", "r", "e", "t">>, user_agent |-> <<"M", "o", "z", "i", "l", "l", "a", "/", "5", ".", "0">>,
       log |-> "admin", pwd |-> "s3cret", forwarded |-> Null, real_ip |-> Null],
      [method |-> "POST", path |-> <<"/", "w", "p", "-", "l", "o", "g", "i", "n", ".", "p", "h", "p">>, query |-> <<>>,
       body |-> <<>>, user_agent |-> <<"M", "o", "z", "i", "l", "l", "a", "/", "5", ".", "0">>,
       log |-> "", pwd |-> "", forwarded |-> Null, real_ip |-> Null],
      [method |-> "POST", path |-> <<"/", "w", "p", "-", "l", "o", "g", "i", "n", ".", "p", "h", "p">>, query |-> <<>>,
       body |-> <<"l", "o", "g", "=", "&", "p", "w", "d", "=", "h", "u", "n", "t", "e", "r", "2">>, user_agent |-> <<"M", "o", "z", "i", "l", "l", "a", "/", "5", ".", "0">>,
       log |-> "", pwd |-> "hunter2", forwarded |-> Null, real_ip |-> Null],
      [method |-> "GET", path |-> <<"/", "w", "p", "-", "a", "d", "m", "i", "n">>, query |-> <<>>,
       body |-> <<>>, user_agent |-> <<"M", "o", "z", "i", "l", "l", "a", "/", "5", ".", "0">>,
       log |-> "", pwd |-> "", forwarded |-> Null, real_ip |-> Null],
      [method |-> "GET", path |-> <<"/", "r", "o", "b", "o", "t", "s", ".", "t", "x", "t">>, query |-> <<>>,
       body |-> <<>>, user_agent |-> <<"M", "o", "z", "i", "l", "l", "a", "/", "5", ".", "0">>,
       log |-> "", pwd |-> "", forwarded |-> Null, real_ip |-> Null],
      [method |-> "GET", path |-> <<"/", "n", "o", "p", "e">>, query |-> <<>>,
       body |-> <<>>, user_agent |-> <<"s", "q", "l", "m", "a", "p", "/", "1", ".", "5", ".", "2">>,
       log |-> "", pwd |-> "", forwarded |-> Null, real_ip |-> Null]
    }

\* _detect_threat of each request the clients send (it depends on nothing else)
ThreatOf == [req \in HttpRequests |-> DetectThreat(req)]

\* request.remote of each client
HttpPeers == [i \in 1..MaxReq |-> "http-peer-" \o ToString(i)]

\* _get_client_ip
GetClientIp(req, peer) ==
    IF req.forwarded # Null THEN req.forwarded
    ELSE IF req.real_ip # Null THEN req.real_ip
    ELSE peer

HttpSlotInit(peer) ==
    [pc |-> "idle", peer |-> peer, req |-> Null, threat_type |-> Null,
     status |-> 0, body |-> Null, wp_headers |-> FALSE, store_failed |-> FALSE,
     raised |-> FALSE]

\* _setup_routes: the handler aiohttp resolves for a method and a path
Route(req) ==
    LET get == req.method = "GET"
        post == req.method = "POST"
    IN CASE get /\ req.path \in {<<"/">>, <<"/", "i", "n", "d", "e", "x", ".", "p", "h", "p">>, <<"/", "i", "n", "d", "e", "x", ".", "h", "t", "m", "l">>} -> "home"
         [] get /\ req.path = <<"/", "w", "p", "-", "l", "o", "g", "i", "n", ".", "p", "h", "p">> -> "wp_login"
         [] post /\ req.path = <<"/", "w", "p", "-", "l", "o", "g", "i", "n", ".", "p", "h", "p">> -> "wp_login_post"
         [] get /\ req.path \in {<<"/", "w", "p", "-", "a", "d", "m", "i", "n">>, <<"/", "w", "p", "-", "a", "d", "m", "i", "n", "/">>} -> "wp_admin"
         [] post /\ req.path = <<"/", "x", "m", "l", "r", "p", "c", ".", "p", "h", "p">> -> "xmlrpc"
         [] get /\ req.path = <<"/", "r", "o", "b", "o", "t", "s", ".", "t", "x", "t">> -> "robots"
         [] get /\ req.path = <<"/", ".", "e", "n", "v">> -> "env_probe"
         [] get /\ req.path = <<"/", "c", "o", "n", "f", "i", "g", ".", "p", "h", "p">> -> "config_probe"
         [] OTHER -> "catchall"

\* A middleware that records nothing
HttpRecordAttackSkipped(h, d, req, threat_type, ok) == HD(h, d)

\* HTTPHoneypot._record_attack: one INSERT, one commit
HttpRecordAttack(h, d, req, threat_type, ok) ==
    IF ok
    THEN HD(h, [d EXCEPT !.attacks = @ \cup
                   {AttackRow(d.nextId, GetClientIp(req, h.peer), "http", threat_type)},
                 !.nextId = @ + 1])
    ELSE HD([h EXCEPT !.store_failed = TRUE], d)

\* Outcomes of the transaction of HTTPHoneypot._record_credential
HttpTxOutcomes == {"fail_attack", "fail_commit", "ok"}

HttpRecordCredential(h, d, client_ip, username, password, o) ==
    LET aid == d.nextId
        failed == [h EXCEPT !.store_failed = TRUE]
    IN CASE o = "fail_attack" -> HD(failed, d)
         [] o = "fail_commit" -> HD(failed, [d EXCEPT !.nextId = aid + 2])
         [] OTHER ->
              HD(h, [d EXCEPT !.attacks = @ \cup
                        {AttackRow(aid, client_ip, "http", "credential_attack")},
                      !.credentials = @ \cup
                        {CredentialRow(aid + 1, aid, username, password, FALSE)},
                      !.nextId = aid + 2])

Respond(r, status, body, wp_headers) ==
    HD([r.h EXCEPT !.pc = "done", !.status = status, !.body = body,
                   !.wp_headers = wp_headers], r.d)

\* A login handler that records a submission only when it names a user
HandleWpLoginPostNamed(h, d, req, o) ==
    LET r == IF req.log # ""
             THEN HttpRecordCredential(h, d, GetClientIp(req, h.peer),
                                       req.log, req.pwd, o)
             ELSE HD(h, d)
    IN Respond(r, 200, "login_error", TRUE)

\* _handle_wp_login_post
HandleWpLoginPost(h, d, req, o) ==
    LET r == IF req.log # "" \/ req.pwd # ""
             THEN HttpRecordCredential(h, d, GetClientIp(req, h.peer),
                                       req.log, req.pwd, o)
             ELSE HD(h, d)
    IN Respond(r, 200, "login_error", TRUE)

\* The route handlers, and what the middleware returns for each
HttpHandle(h, d, req, o) ==
    LET route == Route(req)
    IN CASE route = "home" -> Respond(HD(h, d), 200, "home", TRUE)
         [] route = "wp_login" -> Respond(HD(h, d), 200, "login", TRUE)
         [] route = "wp_login_post" -> HandleWpLoginPost(h, d, req, o)
         [] route = "wp_admin" -> Respond(HD(h, d), 302, "redirect", FALSE)
         [] route = "xmlrpc" -> Respond(HD(h, d), 200, "xmlrpc_fault", TRUE)
         [] route = "robots" -> Respond(HD(h, d), 200, "robots", FALSE)
         [] route = "env_probe" -> Respond(HD(h, d), 200, "fake_env", FALSE)
         [] route = "config_probe" -> Respond(HD(h, d), 200, "fake_config", FALSE)
         [] OTHER -> Respond(HD(h, d), 404, "not_found", TRUE)

\* What the route handler does when called: it returns (or raises an
\* HTTPException, which aiohttp answers with), or it raises another error
HttpFaults == {"none", "raises"}

\* A middleware that lets the handler's error through: it returns nothing
HttpCallHandlerUnguarded(h, d, req, o, fault) ==
    IF fault = "none" THEN HttpHandle(h, d, req, o)
    ELSE LET r == HttpHandle(h, d, req, o)
         IN HD([r.h EXCEPT !.pc = "done", !.status = 0, !.body = Null,
                           !.wp_headers = FALSE, !.raised = TRUE], r.d)

\* _request_logger_middleware, the try around the handler (`raised` notes
\* that the handler raised)
HttpCallHandler(h, d, req, o, fault) ==
    IF fault = "none" THEN HttpHandle(h, d, req, o)
    ELSE LET r == HttpHandle(h, d, req, o)
         IN Respond(HD([r.h EXCEPT !.raised = TRUE], r.d),
                    500, "Internal Server Error", FALSE)

\* _request_logger_middleware up to the call of the handler
HttpLogRequest(h, d, req, ok) ==
    LET threat_type == ThreatOf[req]
        r == HttpRecordAttack([h EXCEPT !.req = req, !.threat_type = threat_type],
                              d, req, threat_type, ok)
    IN HD([r.h EXCEPT !.pc = "logged"], r.d)

HttpMiddleware ==
    /\ db.nextId <= MaxIds
    /\ \E i \in 1..Len(http), req \in HttpRequests, ok \in BOOLEAN :
         /\ http[i].pc = "idle"
         /\ LET r == HttpLogRequest(http[i], db, req, ok)
            IN http' = [http EXCEPT ![i] = r.h] /\ db' = r.d
    /\ UNCHANGED <<clock, ftp, ssh, tasks, twin, resolver, feed, matcher, svc>>
    /\ Spend

HttpDispatch ==
    /\ db.nextId + 1 <= MaxIds
    /\ \E i \in 1..Len(http), o \in HttpTxOutcomes, fault \in HttpFaults :
         /\ http[i].pc = "logged"
         /\ LET r == HttpCallHandler(http[i], db, http[i].req, o, fault)
            IN http' = [http EXCEPT ![i] = r.h] /\ db' = r.d
    /\ UNCHANGED <<clock, ftp, ssh, tasks, twin, resolver, feed, matcher, svc>>
    /\ Spend

-----------------------------------------------------------------------------

Tick ==
    /\ clock < MaxClock
    /\ clock' = clock + 1
    /\ UNCHANGED <<db, ftp, ssh, tasks, http, twin, resolver, feed, matcher, svc>>
    /\ Spend

-----------------------------------------------------------------------------
(* The FTP path resolver called alone, on every short argument *)

\* One handler in a directory, about to resolve one argument
ResolverInit ==
    { [pc |-> "called", current_dir |-> c, path |-> p, once |-> <<>>, twice |-> <<>>]
        : c \in FakeDirs, p \in PathArgs }

\* No handler resolves a path
ResolverIdle ==
    [pc |-> "idle", current_dir |-> <<"/">>, path |-> <<>>, once |-> <<>>, twice |-> <<>>]

\* self._resolve_path(path)
Resolve ==
    /\ resolver.pc = "called"
    /\ resolver' = [resolver EXCEPT !.pc = "resolved",
                                    !.once = ResolvePath(resolver.current_dir, resolver.path)]
    /\ UNCHANGED <<db, clock, ftp, ssh, tasks, http, twin, feed, matcher, svc>>
    /\ Spend

\* self._resolve_path of the path the first call returned
ResolveAgain ==
    /\ resolver.pc = "resolved"
    /\ resolver' = [resolver EXCEPT !.pc = "done",
                                    !.twice = ResolvePath(resolver.current_dir, resolver.once)]
    /\ UNCHANGED <<db, clock, ftp, ssh, tasks, http, twin, feed, matcher, svc>>
    /\ Spend

-----------------------------------------------------------------------------
(* One input stream of the SSH shell delivered in two ways: `split` is the
   session that receives it in the chunks the transport made of it, `single`
   the session that receives it one character per chunk. *)

\* The characters of the streams: two letters and the two line ends
StreamChars == {"a", "b", CR, LF}

Streams == UNION { [1..n -> StreamChars] : n \in 1..MaxStream }

RECURSIVE SplitAt(_, _, _)
\* The chunks of s from position `from` on, cut after the positions in cuts
SplitAt(s, cuts, from) ==
    IF from > Len(s) THEN <<>>
    ELSE LET to == Min({c \in cuts \cup {Len(s)} : c >= from})
         IN <<SubSeq(s, from, to)>> \o SplitAt(s, cuts, to + 1)

\* The session once its shell is open: session_started
ShellOpened == [h |-> SessionStarted(SshInit, <<>>).h, q |-> <<>>]

FeedInit ==
    { [pc |-> "feeding",
       chunks |-> SplitAt(s, cuts, 1),
       chars |-> SplitAt(s, 1..(Len(s) - 1), 1),
       split |-> ShellOpened, single |-> ShellOpened]
        : cuts \in SUBSET (1..(MaxStream - 1)), s \in Streams }

\* No stream is delivered
FeedIdle ==
    [pc |-> "idle", chunks |-> <<>>, chars |-> <<>>,
     split |-> ShellOpened, single |-> ShellOpened]

\* data_received of the next chunk of the stream
FeedChunk ==
    /\ feed.pc = "feeding" /\ feed.chunks # <<>>
    /\ feed' = [feed EXCEPT
                  !.chunks = Tail(@),
                  !.split = DataReceived(@.h, @.q, Head(feed.chunks))]
    /\ UNCHANGED <<db, clock, ftp, ssh, tasks, http, twin, resolver, matcher, svc>>
    /\ Spend

\* data_received of the next character of the stream
FeedChar ==
    /\ feed.pc = "feeding" /\ feed.chars # <<>>
    /\ feed' = [feed EXCEPT
                  !.chars = Tail(@),
                  !.single = DataReceived(@.h, @.q, Head(feed.chars))]
    /\ UNCHANGED <<db, clock, ftp, ssh, tasks, http, twin, resolver, matcher, svc>>
    /\ Spend

-----------------------------------------------------------------------------
\* One lock-step pair of runs of one emulator on the same input: `ref` is
\* the run in which every store call succeeds, `run` the one in which any of
\* them may fail.  A world is the handler h, its task queue q and its store d.
World(h) == [h |-> h, q |-> <<>>, d |-> DbInit]

TwinInit ==
    { [kind |-> "ftp", ref |-> World(FtpHandlerInit(a)), run |-> World(FtpHandlerInit(a))]
        : a \in BOOLEAN }
    \cup { [kind |-> "ssh", ref |-> World(SshInit), run |-> World(SshInit)],
           [kind |-> "http", ref |-> World(HttpSlotInit(HttpPeers[1])),
                             run |-> World(HttpSlotInit(HttpPeers[1]))] }

WithQ(r, q) == [h |-> r.h, q |-> q, d |-> r.d]

\* A task run from its start until it ends, the store answering at once:
\* its first run, then its wait on the store, then its commit
RunTask(w, now, ok1, ok2) ==
    LET waits(x) == x.q # <<>> /\ x.q[1].pc # "new"
        begin(x) == LET s == TaskStart(x.h, x.q, 1)
                    IN [h |-> s.h, q |-> s.q, d |-> x.d]
        await(x) == IF ~waits(x) THEN x
                    ELSE IF x.q[1].kind = "shell"
                    THEN StartShellCommit(x.h, x.q, x.d, now, 1, ok1)
                    ELSE TaskGet(x.h, x.q, x.d, now, 1, ok1)
        finish(x) == IF waits(x) THEN TaskCommit(x.h, x.q, x.d, 1, ok2) ELSE x
    IN CHOOSE r \in { finish(w2) : w2 \in { await(w1) : w1 \in { begin(w0) : w0 \in {w} } } } : TRUE

\* The whole of _request_logger_middleware for one request
HttpServe(w, req, ok, o, fault) ==
    LET r == HttpLogRequest(w.h, w.d, req, ok)
    IN WithQ(HttpCallHandler(r.h, r.d, req, o, fault), <<>>)

TwinFtpAccept ==
    /\ twin.kind = "ftp" /\ twin.ref.h.pc = "accepted"
    /\ twin' = [twin EXCEPT !.ref.h = FtpWelcome(@), !.run.h = FtpWelcome(@)]
    /\ UNCHANGED <<db, clock, ftp, ssh, tasks, http, resolver, feed, matcher, svc>>
    /\ Spend

TwinFtpCommand ==
    /\ twin.kind = "ftp" /\ twin.ref.h.pc = "serving"
    /\ Len(twin.ref.h.commands) < MaxFtpLines
    /\ twin.ref.d.nextId + 2 <= MaxIds /\ twin.run.d.nextId + 2 <= MaxIds
    /\ \E line \in FtpLines, o \in AttackTxOutcomes, ok \in BOOLEAN :
         twin' = [twin EXCEPT
            !.ref = WithQ(FtpProcessCommand(@.h, @.d, clock, line, "ok", TRUE, NoEnv), <<>>),
            !.run = WithQ(FtpProcessCommand(@.h, @.d, clock, line, o, ok, NoEnv), <<>>)]
    /\ UNCHANGED <<db, clock, ftp, ssh, tasks, http, resolver, feed, matcher, svc>>
    /\ Spend

TwinFtpLeave ==
    /\ twin.kind = "ftp" /\ twin.ref.h.pc = "serving"
    /\ \E how \in FtpExits, ok \in BOOLEAN :
         twin' = [twin EXCEPT
            !.ref = WithQ(FtpExit(@.h, @.d, clock, how, TRUE), <<>>),
            !.run = WithQ(FtpExit(@.h, @.d, clock, how, ok), <<>>)]
    /\ UNCHANGED <<db, clock, ftp, ssh, tasks, http, resolver, feed, matcher, svc>>
    /\ Spend

TwinSshAuth ==
    /\ twin.kind = "ssh" /\ twin.ref.h.pc = "auth"
    /\ \E l \in SshLogins, o \in SshTxOutcomes :
         twin' = [twin EXCEPT
            !.ref = WithQ(ValidatePassword(@.h, @.d, l[1], l[2], "ok"), <<>>),
            !.run = WithQ(ValidatePassword(@.h, @.d, l[1], l[2], o), <<>>)]
    /\ UNCHANGED <<db, clock, ftp, ssh, tasks, http, resolver, feed, matcher, svc>>
    /\ Spend

TwinSshOpenShell ==
    /\ twin.kind = "ssh" /\ twin.ref.h.pc = "authed"
    /\ LET open(w) == [SessionStarted(w.h, w.q) EXCEPT !.h = @] @@ [d |-> w.d]
       IN twin' = [twin EXCEPT !.ref = open(@), !.run = open(@)]
    /\ UNCHANGED <<db, clock, ftp, ssh, tasks, http, resolver, feed, matcher, svc>>
    /\ Spend

TwinSshData ==
    /\ twin.kind = "ssh" /\ twin.ref.h.pc = "shell" /\ twin.ref.h.chan = "open"
    /\ \E data \in SshChunks :
         /\ data \in {<<CR>>, <<LF>>} => Len(twin.ref.h.entered) < MaxCmds
         /\ data \notin {<<CR>>, <<LF>>, <<DEL>>, <<CtrlC>>, <<CtrlD>>}
               => Len(twin.ref.h.commands) < MaxLine
         /\ LET recv(w) == DataReceived(w.h, w.q, data) @@ [d |-> w.d]
            IN twin' = [twin EXCEPT !.ref = recv(@), !.run = recv(@)]
    /\ UNCHANGED <<db, clock, ftp, ssh, tasks, http, resolver, feed, matcher, svc>>
    /\ Spend

TwinSshEof ==
    /\ twin.kind = "ssh" /\ twin.ref.h.pc = "shell" /\ twin.ref.h.chan = "open"
    /\ LET eof(w) == LET e == EofReceived([w.h EXCEPT !.out = <<>>], w.q)
                     IN [h |-> e.h, q |-> e.q, d |-> w.d]
       IN twin' = [twin EXCEPT !.ref = eof(@), !.run = eof(@)]
    /\ UNCHANGED <<db, clock, ftp, ssh, tasks, http, resolver, feed, matcher, svc>>
    /\ Spend

TwinSshTask ==
    /\ twin.kind = "ssh" /\ twin.ref.q # <<>> /\ twin.run.q # <<>>
    /\ twin.run.d.nextId <= MaxIds
    /\ \E ok1 \in BOOLEAN, ok2 \in BOOLEAN :
         \E a \in {RunTask(twin.ref, clock, TRUE, TRUE)},
            b \in {RunTask(twin.run, clock, ok1, ok2)} :
              twin' = [twin EXCEPT !.ref = a, !.run = b]
    /\ UNCHANGED <<db, clock, ftp, ssh, tasks, http, resolver, feed, matcher, svc>>
    /\ Spend

TwinHttpRequest ==
    /\ twin.kind = "http" /\ twin.ref.h.pc = "idle"
    /\ \E req \in HttpRequests, ok \in BOOLEAN, o \in HttpTxOutcomes,
          fault \in HttpFaults :
         twin' = [twin EXCEPT !.ref = HttpServe(@, req, TRUE, "ok", fault),
                              !.run = HttpServe(@, req, ok, o, fault)]
    /\ UNCHANGED <<db, clock, ftp, ssh, tasks, http, resolver, feed, matcher, svc>>
    /\ Spend

-----------------------------------------------------------------------------
(* The life cycle of an emulator service: FTPHoneypot.start / stop, which  *)
(* SSHHoneypot and BaseHoneypotService repeat line for line, its accept    *)
(* loop and the handlers it spawned.  A handler is kept by its control     *)
(* state only: where handle() is, whether it has a Session, how long the   *)
(* pending readline has waited, and whether _close_session ran.            *)

SvcHandlerInit ==
    [pc |-> "none", session |-> "none", idle |-> 0, closed |-> FALSE, how |-> "none"]

\* __init__: no server, not running.  waits tells which asyncio the service
\* runs on: Server.wait_closed returns at once (before Python 3.12) or
\* waits until every connection of the server has ended.
SvcConstructed(waits) ==
    [running |-> FALSE, server |-> "none", stop_pc |-> "idle", last |-> "none",
     waits |-> waits, handlers |-> [h \in 1..MaxHandlers |-> SvcHandlerInit]]

SvcIdle == SvcConstructed(FALSE)

SvcInit == {SvcConstructed(w) : w \in BOOLEAN}

Serving(s) == {h \in 1..MaxHandlers : s.handlers[h].pc = "serving"}

\* A start that sets _running although asyncio.start_server raised
SvcStartOptimistic(s, bound) ==
    IF s.running THEN [s EXCEPT !.last = "start_noop"]
    ELSE IF bound
    THEN [s EXCEPT !.server = "listening", !.running = TRUE, !.last = "start_ok"]
    ELSE [s EXCEPT !.running = TRUE, !.last = "start_raised"]

\* start(): bound tells whether asyncio.start_server could bind
SvcStart(s, bound) ==
    IF s.running THEN [s EXCEPT !.last = "start_noop"]
    ELSE IF bound
    THEN [s EXCEPT !.server = "listening", !.running = TRUE, !.last = "start_ok"]
    ELSE [s EXCEPT !.last = "start_raised"]

\* stop() up to the return of wait_closed: the listener is closed, the
\* handlers are left as they are
SvcStop(s) ==
    IF ~s.running THEN [s EXCEPT !.last = "stop_noop"]
    ELSE LET s1 == [s EXCEPT !.server = IF @ = "none" THEN @ ELSE "closed"]
         IN IF s1.server # "none" /\ s.waits /\ Serving(s) # {}
            THEN [s1 EXCEPT !.stop_pc = "waiting", !.last = "stop_waiting"]
            ELSE [s1 EXCEPT !.running = FALSE, !.last = "stop_done"]

\* stop() after wait_closed returned
SvcStopReturn(s) ==
    [s EXCEPT !.running = FALSE, !.stop_pc = "idle", !.last = "stop_done"]

\* _handle_client: the accept loop made a handler for a new connection
SvcAccepted(s, h) ==
    [s EXCEPT !.handlers[h] = [SvcHandlerInit EXCEPT !.pc = "serving"]]

\* A line was read and processed; a USER anonymous or a PASS among the
\* lines opens the Session when the store takes the record
SvcLine(s, h, opens) ==
    [s EXCEPT !.handlers[h].idle = 0,
              !.handlers[h].session = IF opens /\ @ = "none" THEN "open" ELSE @]

\* A handle() without the except Exception branch: the error leaves it
\* before the session is closed and takes the accept loop with it
SvcHandlerEndsLoud(s, h, how, ok) ==
    IF how = "error"
    THEN [s EXCEPT !.handlers[h].pc = "exited",
                   !.handlers[h].how = how,
                   !.server = "closed"]
    ELSE [s EXCEPT !.handlers[h].pc = "exited",
                   !.handlers[h].how = how,
                   !.handlers[h].closed = TRUE,
                   !.handlers[h].session = IF @ = "open" /\ ok THEN "sealed" ELSE @]

\* The end of handle(): the except branches swallow the error, the finally
\* runs _close_session, which seals the Session the handler has when the
\* store takes the update, and closes the writer
SvcHandlerEnds(s, h, how, ok) ==
    [s EXCEPT !.handlers[h].pc = "exited",
              !.handlers[h].how = how,
              !.handlers[h].closed = TRUE,
              !.handlers[h].session = IF @ = "open" /\ ok THEN "sealed" ELSE @]

\* The driver calls start(); it calls nothing while a stop() has not returned
SvcStartCall ==
    /\ svc.stop_pc = "idle"
    /\ \E bound \in BOOLEAN : svc' = SvcStart(svc, bound)
    /\ UNCHANGED <<db, clock, ftp, ssh, tasks, http, twin, resolver, feed, matcher>>
    /\ Spend

SvcStopCall ==
    /\ svc.stop_pc = "idle"
    /\ svc' = SvcStop(svc)
    /\ UNCHANGED <<db, clock, ftp, ssh, tasks, http, twin, resolver, feed, matcher>>
    /\ Spend

\* wait_closed returns once no connection of the server is left
SvcStopReturns ==
    /\ svc.stop_pc = "waiting"
    /\ Serving(svc) = {}
    /\ svc' = SvcStopReturn(svc)
    /\ UNCHANGED <<db, clock, ftp, ssh, tasks, http, twin, resolver, feed, matcher>>
    /\ Spend

SvcAccept ==
    /\ svc.server = "listening"
    /\ \E h \in 1..MaxHandlers :
         /\ svc.handlers[h].pc = "none"
         /\ svc' = SvcAccepted(svc, h)
    /\ UNCHANGED <<db, clock, ftp, ssh, tasks, http, twin, resolver, feed, matcher>>
    /\ Spend

\* The peer sends a line before the readline timeout
SvcPeerLine ==
    /\ \E h \in Serving(svc), opens \in BOOLEAN : svc' = SvcLine(svc, h, opens)
    /\ UNCHANGED <<db, clock, ftp, ssh, tasks, http, twin, resolver, feed, matcher>>
    /\ Spend

\* Time passes for every pending readline; none waits past the timeout
SvcTick ==
    /\ Serving(svc) # {}
    /\ \A h \in Serving(svc) : svc.handlers[h].idle < IdleLimit
    /\ svc' = [svc EXCEPT !.handlers = [h \in 1..MaxHandlers |->
                   IF h \in Serving(svc) THEN [@[h] EXCEPT !.idle = @ + 1] ELSE @[h]]]
    /\ UNCHANGED <<db, clock, ftp, ssh, tasks, http, twin, resolver, feed, matcher>>
    /\ Spend

\* asyncio.wait_for times out: 421, break, finally
SvcTimeout ==
    /\ \E h \in Serving(svc), ok \in BOOLEAN :
         /\ svc.handlers[h].idle = IdleLimit
         /\ svc' = SvcHandlerEnds(svc, h, "timeout", ok)
    /\ UNCHANGED <<db, clock, ftp, ssh, tasks, http, twin, resolver, feed, matcher>>
    /\ Spend

\* The peer closes or resets the connection: break or except, finally
SvcPeerCloses ==
    /\ \E h \in Serving(svc), ok \in BOOLEAN :
         svc' = SvcHandlerEnds(svc, h, "closed", ok)
    /\ UNCHANGED <<db, clock, ftp, ssh, tasks, http, twin, resolver, feed, matcher>>
    /\ Spend

\* _process_command raises (a write on the control or the data connection
\* failed): except Exception, finally
SvcHandlerError ==
    /\ \E h \in Serving(svc), ok \in BOOLEAN :
         svc' = SvcHandlerEnds(svc, h, "error", ok)
    /\ UNCHANGED <<db, clock, ftp, ssh, tasks, http, twin, resolver, feed, matcher>>
    /\ Spend

-----------------------------------------------------------------------------

InitHandlers ==
    /\ db = DbInit
    /\ clock = 1
    /\ ftp \in {FtpHandlerInit(a) : a \in BOOLEAN}
    /\ ssh = SshInit
    /\ tasks = <<>>
    /\ http = [i \in 1..MaxReq |-> HttpSlotInit(HttpPeers[i])]
    /\ twin \in TwinInit
    /\ budget \in {NoBudget, MaxEvents}
    /\ svc = SvcIdle

Init ==
    /\ InitHandlers
    /\ resolver = ResolverIdle /\ feed = FeedIdle /\ matcher = MatcherIdle

\* Each specification runs its own emulator; the others stay as built
InitFtp == Init /\ twin.kind = "http" /\ budget = NoBudget

InitOne == InitFtp /\ ftp.anonymous

InitTwin == Init /\ ftp.anonymous /\ budget = NoBudget

InitAll == Init /\ twin.kind = "http" /\ budget = MaxEvents

InitResolver ==
    /\ InitHandlers /\ ftp.anonymous /\ twin.kind = "http" /\ budget = NoBudget
    /\ resolver \in ResolverInit
    /\ feed = FeedIdle /\ matcher = MatcherIdle

InitFeed ==
    /\ InitHandlers /\ ftp.anonymous /\ twin.kind = "http" /\ budget = NoBudget
    /\ resolver = ResolverIdle /\ matcher = MatcherIdle
    /\ feed \in FeedInit

InitMatcher ==
    /\ InitHandlers /\ ftp.anonymous /\ twin.kind = "http" /\ budget = NoBudget
    /\ resolver = ResolverIdle /\ feed = FeedIdle
    /\ matcher \in MatcherInit

InitFtpSession ==
    /\ \E anonymous \in BOOLEAN :
         db = FtpLoggedIn(anonymous).d /\ ftp = FtpLoggedIn(anonymous).h
    /\ clock = 1
    /\ ssh = SshInit
    /\ tasks = <<>>
    /\ http = [i \in 1..MaxReq |-> HttpSlotInit(HttpPeers[i])]
    /\ twin \in TwinInit /\ twin.kind = "http"
    /\ budget = NoBudget
    /\ resolver = ResolverIdle /\ feed = FeedIdle /\ matcher = MatcherIdle
    /\ svc = SvcIdle

\* The service as its constructor leaves it; the emulators' single handlers
\* stay as built
InitService ==
    /\ db = DbInit
    /\ clock = 1
    /\ ftp = FtpHandlerInit(TRUE)
    /\ ssh = SshInit
    /\ tasks = <<>>
    /\ http = [i \in 1..MaxReq |-> HttpSlotInit(HttpPeers[i])]
    /\ twin \in TwinInit /\ twin.kind = "http"
    /\ budget = NoBudget
    /\ resolver = ResolverIdle /\ feed = FeedIdle /\ matcher = MatcherIdle
    /\ svc \in SvcInit

NextFtp ==
    \/ FtpAccept \/ FtpCommand \/ FtpDataCommand \/ FtpDataConnect
    \/ FtpLeave \/ Tick

SpecFtp == InitFtp /\ [][NextFtp]_vars

NextFtpSession == FtpSessionCommand \/ FtpDataConnect

NextFtpGate == FtpGateCommand \/ FtpTransferFails \/ FtpDataConnect

SpecFtpGate == InitFtpSession /\ [][NextFtpGate]_vars

NextService ==
    \/ SvcStartCall \/ SvcStopCall \/ SvcStopReturns \/ SvcAccept
    \/ SvcPeerLine \/ SvcTick \/ SvcTimeout \/ SvcPeerCloses \/ SvcHandlerError

SpecService == InitService /\ [][NextService]_vars

\* The event loop runs what is ready: time passes, a timeout that is due
\* fires, wait_closed returns when it can.  What the peers do is up to them.
SpecServiceLive ==
    /\ SpecService
    /\ WF_vars(SvcTick) /\ WF_vars(SvcTimeout) /\ WF_vars(SvcStopReturns)

SpecFtpSession == InitFtpSession /\ [][NextFtpSession]_vars

NextSsh ==
    \/ SshAuth \/ SshOpenShell \/ SshData \/ SshEof \/ SshDrop
    \/ SshTaskStart \/ SshShellCommit \/ SshTaskGet \/ SshTaskCommit \/ Tick

SpecSsh == InitOne /\ [][NextSsh]_vars

NextHttp == HttpMiddleware \/ HttpDispatch

SpecHttp == InitOne /\ [][NextHttp]_vars

NextTwin ==
    \/ TwinFtpAccept \/ TwinFtpCommand \/ TwinFtpLeave
    \/ TwinSshAuth \/ TwinSshOpenShell \/ TwinSshData \/ TwinSshEof \/ TwinSshTask
    \/ TwinHttpRequest

SpecTwin == InitTwin /\ [][NextTwin]_vars

NextResolver == Resolve \/ ResolveAgain

NextFeed == FeedChunk \/ FeedChar

NextMatcher == Detect \/ DetectAgain

SpecMatcher == InitMatcher /\ [][NextMatcher]_vars

SpecFeed == InitFeed /\ [][NextFeed]_vars

SpecResolver == InitResolver /\ [][NextResolver]_vars

\* The capture paths of the three emulators over one store, MaxEvents
\* handler steps in all
Next ==
    \/ FtpAccept \/ FtpCommand \/ FtpLeave
    \/ SshAuth \/ SshOpenShell \/ SshTaskStart \/ SshShellCommit
    \/ HttpMiddleware \/ HttpDispatch

Spec == InitAll /\ [][Next]_vars

-----------------------------------------------------------------------------
(* Properties of the store and of the capture paths *)

\* C1: in every reachable state of the store, whatever handlers of the three
\* emulators interleave and whichever store writes fail, the attack_id of
\* every committed Credential is the id of a committed Attack.
CredentialsReferenceAttacks ==
    \A c \in db.credentials : c.attack_id \in AttackIds(db)

\* A Credential is committed while the FTP handler, after a PASS whose Attack
\* was rolled back, holds the id of an Attack the store never committed
CredentialsReferenceAttacksWitness ==
    /\ db.credentials # {}
    /\ ftp.password # Null
    /\ ftp.attack_id # NoId
    /\ ftp.attack_id \notin AttackIds(db)

\* The Attack rows one HTTP request wrote: its slot's peer is its client_ip
HttpAttacksOf(i) == {a \in db.attacks : a.service = "http" /\ a.ip = http[i].peer}

\* A login submission that carries a user name or a password
CarriesCredentials(req) ==
    Route(req) = "wp_login_post" /\ (req.log # "" \/ req.pwd # "")

\* C3 as stated: every request handled while the store is available, on
\* every route, the login POST with credentials included, has exactly one
\* Attack row once the middleware has logged it and once it is answered.
OneAttackPerHttpRequest ==
    \A i \in 1..Len(http) :
        (http[i].pc \in {"logged", "done"} /\ ~http[i].store_failed)
            => Cardinality(HttpAttacksOf(i)) = 1

\* C3: for every request handled while the store is available the
\* middleware writes exactly one Attack, of the detected threat type, before
\* the route handler runs; the answered request still has exactly that one,
\* except a login POST carrying credentials, which has a second Attack of
\* type credential_attack.
OneAttackBeforeHttpResponse ==
    \A i \in 1..Len(http) :
        ~http[i].store_failed =>
            /\ http[i].pc = "idle" => HttpAttacksOf(i) = {}
            /\ http[i].pc = "logged" =>
                 /\ Cardinality(HttpAttacksOf(i)) = 1
                 /\ \A a \in HttpAttacksOf(i) : a.threat_type = http[i].threat_type
                 /\ http[i].status = 0
            /\ (http[i].pc = "done" /\ ~CarriesCredentials(http[i].req)) =>
                 /\ Cardinality(HttpAttacksOf(i)) = 1
                 /\ \A a \in HttpAttacksOf(i) : a.threat_type = http[i].threat_type
            /\ (http[i].pc = "done" /\ CarriesCredentials(http[i].req)) =>
                 /\ Cardinality(HttpAttacksOf(i)) = 2
                 /\ \E a \in HttpAttacksOf(i) : a.threat_type = "credential_attack"

\* A login POST with credentials is answered, the store having taken every
\* write, while another request is logged and not answered yet
OneAttackBeforeHttpResponseWitness ==
    \E i, j \in 1..Len(http) :
        /\ http[i].pc = "done" /\ ~http[i].store_failed
        /\ CarriesCredentials(http[i].req)
        /\ Cardinality(HttpAttacksOf(i)) = 2
        /\ http[j].pc = "logged" /\ ~http[j].store_failed

\* The Attack rows and the Credential rows of the SSH emulator
SshAttacks == {a \in db.attacks : a.service = "ssh"}

FtpExitClosesEverySession ==
    (ftp.pc = "exited" /\ ~ftp.store_failed) =>
        \A sid \in SessionIds(db) : db.sessions[sid].end_time # NoTime

\* C7: an FTP control connection creates at most one Session, whatever USER
\* and PASS commands the client sends.
FtpAtMostOneSession == Cardinality(SessionIds(db)) <= 1

-----------------------------------------------------------------------------
(* Properties of the SSH session record *)

\* The SSH connection has a Session row in the store
SshSessionOpened == ssh.session_id \in SessionIds(db)

\* C2: the attacker entered N non-empty command lines and disconnected; once
\* every task has finished (each command was entered after the Session was
\* opened, no task was cut short and no store call failed) the persisted
\* commands are exactly the N commands entered, each once, in order.
SshCommandsRecordedInOrder ==
    (/\ SshSessionOpened
     /\ ssh.chan = "closed" /\ tasks = <<>>
     /\ ~ssh.early /\ ~ssh.aborted /\ ~ssh.store_failed)
        => db.sessions[ssh.session_id].commands = ssh.entered

\* C8: once the connection of an opened SSH Session has ended (exit or
\* logout, Ctrl-D or EOF, or a drop with no EOF), every task has finished and
\* no store call failed, the Session has its end_time set.
SshEndedSessionIsClosed ==
    (/\ SshSessionOpened
     /\ ssh.chan = "closed" /\ tasks = <<>>
     /\ ~ssh.store_failed)
        => db.sessions[ssh.session_id].end_time # NoTime

\* C9: closing an SSH Session that is already closed is a no-op: no step
\* changes an end_time that is set.
SshFirstEndTimeWins ==
    [][(SshSessionOpened /\ db.sessions[ssh.session_id].end_time # NoTime)
          => db'.sessions[ssh.session_id].end_time
                = db.sessions[ssh.session_id].end_time]_vars

\* C10: once an SSH Session is closed (end_time set), a command-record task
\* that runs after the close was committed (it read the closed row) leaves
\* the commands of the Session unchanged.
SshNoAppendAfterClose ==
    [][(/\ SshSessionOpened
        /\ db.sessions[ssh.session_id].end_time # NoTime
        /\ \A i \in 1..Len(tasks) :
              (tasks[i].kind = "cmd" /\ tasks[i].pc = "commit")
                 => tasks[i].t # NoTime)
          => db'.sessions[ssh.session_id].commands
                = db.sessions[ssh.session_id].commands]_vars

-----------------------------------------------------------------------------
(* Replies and store outcomes *)

\* C4: two runs of one handler on the same input, one in which every store
\* call succeeds and one in which any of them may fail, send the peer the
\* same replies: the same FTP reply codes, the same SSH authentication
\* result and shell output, the same HTTP status, body and headers.
RepliesIgnoreStoreOutcome ==
    /\ twin.kind = "ftp" =>
         /\ twin.run.h.out = twin.ref.h.out
         /\ twin.run.h.pc = twin.ref.h.pc
    /\ twin.kind = "ssh" =>
         /\ twin.run.h.auth = twin.ref.h.auth
         /\ twin.run.h.out = twin.ref.h.out
         /\ twin.run.h.chan = twin.ref.h.chan
    /\ twin.kind = "http" =>
         /\ twin.run.h.status = twin.ref.h.status
         /\ twin.run.h.body = twin.ref.h.body
         /\ twin.run.h.wp_headers = twin.ref.h.wp_headers

\* A PASS is answered 230 in both runs although the store refused a write
\* of one of them only
RepliesIgnoreStoreOutcomeWitness ==
    /\ twin.kind = "ftp"
    /\ twin.run.h.store_failed /\ ~twin.ref.h.store_failed
    /\ twin.run.h.password # Null
    /\ twin.run.h.out = <<230>>
    /\ twin.run.d # twin.ref.d

-----------------------------------------------------------------------------
(* Properties of the FTP control channel *)

\* The command the handler processed last
LastCommand(h) == h.commands[Len(h.commands)]

\* The step processes one more command line, and it is `cmd`
FtpProcesses(cmd) ==
    /\ Len(ftp'.commands) = Len(ftp.commands) + 1
    /\ LastCommand(ftp').cmd = cmd

\* C13: after QUIT the handler processes no further command line of the
\* client: a QUIT in the command log is the last entry of the log.
FtpQuitIsLastCommand ==
    \A i \in 1..Len(ftp.commands) :
        ftp.commands[i].cmd = "QUIT" => i = Len(ftp.commands)

\* C14: a PASS received when no USER was received on the connection is
\* answered 503, leaves authenticated false and writes no Attack, Credential
\* or Session (the store is left as it was).
FtpPassBeforeUserRejected ==
    [][(ftp.username = Null /\ FtpProcesses("PASS"))
          => /\ ftp'.out = <<503>>
             /\ ~ftp'.authenticated
             /\ db' = db]_vars

\* A PASS was the first line of the connection and was answered 503
FtpPassBeforeUserRejectedWitness ==
    /\ Len(ftp.commands) = 1
    /\ LastCommand(ftp).cmd = "PASS"
    /\ ftp.username = Null
    /\ ftp.out = <<503>>
    /\ db = DbInit

\* C27: USER anonymous, in any letter case, on a server that allows the
\* anonymous login is answered 230 and authenticates; every other USER is
\* answered 331 and leaves the client unauthenticated; a PASS received after
\* a USER is answered 230, authenticates and, while the store takes the
\* writes, adds an Attack and a Credential with success = TRUE.
FtpLoginStateMachine ==
    [][/\ FtpProcesses("USER") =>
            IF Lower(LastCommand(ftp').arg) = "anonymous" /\ ftp.anonymous
            THEN ftp'.out = <<230>> /\ ftp'.authenticated
            ELSE ftp'.out = <<331>> /\ ~ftp'.authenticated
       /\ (ftp.username # Null /\ FtpProcesses("PASS")) =>
            /\ ftp'.out = <<230>>
            /\ ftp'.authenticated
            /\ ~ftp'.store_failed =>
                 /\ AttackIds(db') # AttackIds(db)
                 /\ \E c \in db'.credentials \ db.credentials : c.success]_vars

(* Properties of the FTP command log *)

\* The Sessions of the store that have been sealed: end_time is set
SealedSessions(d) == {sid \in SessionIds(d) : d.sessions[sid].end_time # NoTime}

\* C30: the commands log only grows, by one entry, at its end, for each
\* command line the handler processes; the entry of a PASS has the argument
\* "***" whatever the password was; and the Session the handler seals when
\* it exits has the whole log.
FtpCommandsLogComplete ==
    [][/\ Len(ftp'.commands) \in {Len(ftp.commands), Len(ftp.commands) + 1}
       /\ SubSeq(ftp'.commands, 1, Len(ftp.commands)) = ftp.commands
       /\ (FtpCommand \/ FtpDataCommand) =>
            Len(ftp'.commands) = Len(ftp.commands) + 1
       /\ \A i \in 1..Len(ftp'.commands) :
            ftp'.commands[i].cmd = "PASS" => ftp'.commands[i].arg = "***"
       /\ (ftp.pc = "serving" /\ ftp'.pc = "exited") =>
            /\ SealedSessions(db) = {}
            /\ \A sid \in SealedSessions(db') :
                 db'.sessions[sid].commands = ftp'.commands]_vars

\* The client sent USER bob, PASS x and one more line; the handler exited
\* and the Session it sealed has the three entries, the PASS one redacted
FtpCommandsLogCompleteWitness ==
    /\ ftp.pc = "exited"
    /\ ftp.password = "x"
    /\ Len(ftp.commands) = 3
    /\ ftp.commands[2] = [cmd |-> "PASS", arg |-> "***"]
    /\ ftp.session_id \in SealedSessions(db)
    /\ db.sessions[ftp.session_id].commands = ftp.commands

(* Properties of the FTP working directory *)

\* The step processes a CWD, or a CDUP, which is a CWD of ".."
FtpChangesDir(path) ==
    \/ FtpProcesses("CWD") /\ path = PathOf(LastCommand(ftp').arg)
    \/ FtpProcesses("CDUP") /\ path = <<".", ".">>

\* C28: current_dir is always a key of the fake filesystem map; a CWD p, or
\* a CDUP as CWD .., from a logged-in client is answered 250 and sets
\* current_dir to the resolved path when that path is a key of the map, and
\* is answered 550 and leaves current_dir as it was otherwise; a CDUP at /
\* stays at /; before login the answer is 530 and current_dir is left as it
\* was.
FtpCurrentDirIsFakeDir ==
    [][/\ ftp'.current_dir \in FakeDirs
       /\ \A path \in {PathOf(l.arg) : l \in {k \in FtpSessionLines : k.word = "CWD"}}
                    \cup {<<".", ".">>} :
            FtpChangesDir(path) =>
              IF ~ftp.authenticated
              THEN ftp'.out = <<530>> /\ ftp'.current_dir = ftp.current_dir
              ELSE IF ResolvePath(ftp.current_dir, path) \in FakeDirs
              THEN /\ ftp'.out = <<250>>
                   /\ ftp'.current_dir = ResolvePath(ftp.current_dir, path)
              ELSE /\ ftp'.out = <<550>>
                   /\ ftp'.current_dir = ftp.current_dir
       /\ (FtpProcesses("CDUP") /\ ftp.authenticated /\ ftp.current_dir = <<"/">>)
            => ftp'.current_dir = <<"/">> /\ ftp'.out = <<250>>]_vars

\* The client went to /backup, sent CDUP and is back at /; then a CWD to a
\* directory the map does not have was answered 550
FtpCurrentDirIsFakeDirWitness ==
    /\ Len(ftp.commands) >= 3
    /\ ftp.commands[Len(ftp.commands) - 2] = [cmd |-> "CWD", arg |-> "/backup"]
    /\ ftp.commands[Len(ftp.commands) - 1].cmd = "CDUP"
    /\ LastCommand(ftp) = [cmd |-> "CWD", arg |-> "nope"]
    /\ ftp.authenticated
    /\ ftp.current_dir = <<"/">>
    /\ ftp.out = <<550>>

\* C28 as the specification words it: every CWD and every CDUP is answered
\* 250 or 550, whether the client has logged in or not.
FtpCwdAnswers250Or550 ==
    [][(FtpProcesses("CWD") \/ FtpProcesses("CDUP"))
          => ftp'.out \in {<<250>>, <<550>>}]_vars

\* The command words of a log, in order
CommandWords(log) == [i \in 1..Len(log) |-> log[i].cmd]

\* C29: on the connection that sent USER anonymous, PASS, PASV, had its data
\* connection made and its LIST completed, and then sent CWD /backup, the CWD
\* was answered 250 and the RETR credentials.txt that follows, with no
\* further PASV, is answered 150 and 226 with the credential list, which has
\* the line admin:admin123, written on a data connection.
FtpCredentialDownload ==
    [][(/\ CommandWords(ftp.commands) = <<"USER", "PASS", "PASV", "LIST", "CWD">>
        /\ LastCommand(ftp).arg = "/backup"
        /\ \E c \in DOMAIN ftp.conns : ftp.conns[c].wrote
        /\ FtpProcesses("RETR")
        /\ LastCommand(ftp').arg = "credentials.txt")
          => /\ ftp.out = <<250>>
             /\ ftp'.out = <<150, 226>>
             /\ \E c \in DOMAIN ftp'.conns :
                  ftp'.conns[c].content = CredentialList]_vars

(* Properties of the FTP data channel *)

\* C11: A handler has at most one open passive listener at any time, a
\* completed LIST, NLST, RETR or STOR (replies 150 then 226) leaves no
\* listener open, and after the handler has exited no listener it opened is
\* open.
FtpPassiveListenerScoped ==
    /\ Cardinality(OpenListeners(ftp)) <= 1
    /\ ftp.out = <<150, 226>> => OpenListeners(ftp) = {}
    /\ ftp.pc = "exited" => OpenListeners(ftp) = {}

\* C12: Every passive listener of the handler has accepted at most one data
\* connection.
FtpListenerAcceptsOnce ==
    \A l \in 1..Len(ftp.listeners) : ftp.listeners[l].accepted <= 1

\* C15: When a logged-in client sends LIST while the handler has no data
\* connection and no peer connects during the wait, the reply is 425 alone
\* (neither 150 nor 226) and no data connection is written or changed.
FtpListWithoutDataConnection ==
    [][(/\ ftp.authenticated
        /\ ftp.data_writer = NoId
        /\ FtpProcesses("LIST")
        /\ Len(ftp'.conns) = Len(ftp.conns))
          => /\ ftp'.out = <<425>>
             /\ ftp'.conns = ftp.conns]_vars

FtpListWithoutDataConnectionWitness ==
    /\ ftp.authenticated
    /\ LastCommand(ftp).cmd = "LIST"
    /\ ftp.out = <<425>>
    /\ OpenListeners(ftp) # {}
    /\ ftp.conns = <<>>

\* C16: Resolving the path that _resolve_path returned, in the same current
\* directory, returns that path again, for every directory the handler can be
\* in and every argument.
ResolvePathIdempotent ==
    resolver.pc = "done" => resolver.twice = resolver.once

\* A relative argument with ".." resolved below /backup
ResolvePathIdempotentWitness ==
    /\ resolver.pc = "done"
    /\ resolver.current_dir = <<"/", "b", "a", "c", "k", "u", "p">>
    /\ resolver.path = <<".", ".", "/", "a">>
    /\ resolver.once = <<"/", "a">>
    /\ resolver.twice = <<"/", "a">>

(* Properties of the SSH line editor *)

\* The step is data_received(data) on the open channel of the shell
SshReceives(data) ==
    /\ ssh.pc = "shell" /\ ssh.link = "up" /\ ssh.chan = "open"
    /\ ssh' = DataReceived(ssh, tasks, data).h
    /\ tasks' = DataReceived(ssh, tasks, data).q

\* C17: Every Ctrl-C received while the line buffer is non-empty leaves the
\* buffer empty, hands no command to _handle_command (no task, no entry in
\* the commands of the Session row), and writes only the echo, "^C" and the
\* prompt: no response to a command.
SshInterruptDropsLine ==
    [][(ssh.commands # <<>> /\ SshReceives(<<CtrlC>>))
          => /\ ssh'.commands = <<>>
             /\ ssh'.entered = ssh.entered
             /\ tasks' = tasks
             /\ db' = db
             /\ ssh'.out = << <<CtrlC>>, <<"^C", CR, LF>>, Prompt >>]_vars

SshInterruptDropsLineWitness ==
    /\ ssh.dropped # <<>>
    /\ ssh.commands = <<>>
    /\ ssh.out = << <<CtrlC>>, <<"^C", CR, LF>>, Prompt >>

\* C18: A backspace received while the line buffer is empty writes nothing
\* but the echo of the chunk (no erase sequence), and changes nothing else:
\* the buffer, the rest of the session, the tasks and the store are as before.
SshBackspaceOnEmptyLine ==
    [][(ssh.commands = <<>> /\ SshReceives(<<DEL>>))
          => /\ ssh' = [ssh EXCEPT !.out = << <<DEL>> >>, !.dropped = <<>>]
             /\ ssh'.commands = <<>>
             /\ tasks' = tasks
             /\ db' = db]_vars

SshBackspaceOnEmptyLineWitness ==
    /\ ssh.pc = "shell" /\ ssh.chan = "open"
    /\ ssh.out = << <<DEL>> >>
    /\ ssh.commands = <<>>

\* C19: While a command that has a canned response waits for its
\* _handle_command task to write the response, the prompt that follows the
\* command line has not been written.
SshResponseBeforePrompt ==
    \A i \in 1..Len(tasks) :
        (/\ tasks[i].kind = "cmd" /\ tasks[i].pc = "new"
         /\ GenerateFakeResponse(tasks[i].cmd).text # "")
           => \A k \in 1..Len(ssh.out) : ssh.out[k] # Prompt

\* C20: Once a stream has been delivered whole in both ways, the shell that
\* received it in chunks has interpreted the same commands, in the same
\* order, as the shell that received it one character at a time.
SshChunkingInvisible ==
    (feed.pc = "feeding" /\ feed.chunks = <<>> /\ feed.chars = <<>>)
        => feed.split.h.entered = feed.single.h.entered

(* Properties of the SSH exit command *)

\* C21: The attacker entered a command and then exit in an opened Session
\* (no store call failed, no task was cut short).  Once every task has
\* finished, the channel is closed, the Session's commands are the commands
\* entered with exit last, and its end_time is set.
SshExitSealsSession ==
    (/\ SshSessionOpened
     /\ Len(ssh.entered) = 2 /\ ssh.entered[2] = Exit
     /\ tasks = <<>>
     /\ ~ssh.early /\ ~ssh.aborted /\ ~ssh.store_failed)
        => /\ ssh.chan = "closed"
           /\ db.sessions[ssh.session_id].commands = ssh.entered
           /\ db.sessions[ssh.session_id].end_time # NoTime

-----------------------------------------------------------------------------
(* Properties of the pattern matcher *)

\* The keys of ATTACK_PATTERNS in the order of the dict
FamilyOrder ==
    <<"sql_injection", "xss", "path_traversal", "command_injection", "lfi_rfi">>

FamilyPatterns(name) ==
    CASE name = "sql_injection" -> SqlInjectionPatterns
      [] name = "xss" -> XssPatterns
      [] name = "path_traversal" -> PathTraversalPatterns
      [] name = "command_injection" -> CommandInjectionPatterns
      [] name = "lfi_rfi" -> LfiRfiPatterns

\* The positions in FamilyOrder of the families that match the summary
MatchingFamilies(req) ==
    {k \in 1..Len(FamilyOrder) : Hit(FamilyPatterns(FamilyOrder[k]), Combined(req))}

HasSensitivePrefix(req) ==
    \E sp \in SuspiciousPaths : StartsWith(ToLower(req.path), ToLower(sp))

HasScannerAgent(req) ==
    \E sig \in ScannerSignatures : Contains(ToLower(req.user_agent), sig)

\* C22: The label of a request is the first family, in the order of
\* ATTACK_PATTERNS, one of whose patterns matches the summary; when no family
\* matches it is reconnaissance for a path with a sensitive prefix, else
\* scanner for a User-Agent with a scanner signature, else probe; and the
\* same request is given the same label when it arrives again.
DetectThreatPrecedence ==
    matcher.pc = "done" =>
        \A hits \in {MatchingFamilies(matcher.req)} :
            /\ matcher.threat_type =
                  IF hits # {} THEN FamilyOrder[Min(hits)]
                  ELSE IF HasSensitivePrefix(matcher.req) THEN "reconnaissance"
                  ELSE IF HasScannerAgent(matcher.req) THEN "scanner"
                  ELSE "probe"
            /\ matcher.again = matcher.threat_type

\* A summary that matches xss and sql_injection, on a sensitive path, sent
\* by a scanner, is labelled sql_injection
DetectThreatPrecedenceWitness ==
    /\ matcher.pc = "done"
    /\ matcher.req.path = <<"/", "w", "p", "-", "a", "d", "m", "i", "n">>
    /\ matcher.req.query = <<"<", "s", "c", "r", "i", "p", "t", ">", "'">>
    /\ HasScannerAgent(matcher.req)
    /\ matcher.threat_type = "sql_injection"

\* No pattern of any family is found in the text
FreeOfSignatures(text) ==
    \A k \in 1..Len(FamilyOrder) : ~Hit(FamilyPatterns(FamilyOrder[k]), ToLower(text))

\* C23: A request whose path has a sensitive prefix and whose path, query
\* and body each hold no attack signature is labelled reconnaissance.
SensitivePathIsReconnaissance ==
    (/\ matcher.pc = "done"
     /\ HasSensitivePrefix(matcher.req)
     /\ FreeOfSignatures(matcher.req.path)
     /\ FreeOfSignatures(matcher.req.query)
     /\ FreeOfSignatures(matcher.req.body))
        => matcher.threat_type = "reconnaissance"

-----------------------------------------------------------------------------
(* Properties of the HTTP routes *)

\* The Credential rows that reference an Attack of request i
HttpCredentialsOf(i) ==
    {c \in db.credentials : \E a \in HttpAttacksOf(i) : a.id = c.attack_id}

\* The Attack rows of request i that its login handler wrote
HttpLoginAttacksOf(i) ==
    {a \in HttpAttacksOf(i) : a.threat_type = "credential_attack"}

\* C24: Every POST /wp-login.php whose handler returned got the login page
\* with the error banner, status 200.  A credential_attack Attack and a Credential of the
\* request exist only together, the Credential holding the submitted log and
\* pwd with success false; a submission with log or pwd non-empty has
\* exactly one such pair when the store took its writes, a submission with
\* both empty has none, and none is written before the handler ran.
WpLoginPostNeverGrants ==
    \A i \in 1..Len(http) :
        /\ http[i].pc \in {"idle", "logged"} => HttpCredentialsOf(i) = {}
        /\ (http[i].pc = "done" /\ Route(http[i].req) = "wp_login_post") =>
             /\ ~http[i].raised =>
                    http[i].status = 200 /\ http[i].body = "login_error"
             /\ http[i].status \in {200, 500}
             /\ \A a \in HttpLoginAttacksOf(i) :
                    \E c \in HttpCredentialsOf(i) : c.attack_id = a.id
             /\ \A c \in HttpCredentialsOf(i) :
                    /\ c.username = http[i].req.log
                    /\ c.password = http[i].req.pwd
                    /\ ~c.success
                    /\ \E a \in HttpLoginAttacksOf(i) : a.id = c.attack_id
             /\ ~CarriesCredentials(http[i].req) => HttpCredentialsOf(i) = {}
             /\ (CarriesCredentials(http[i].req) /\ ~http[i].store_failed) =>
                    /\ Cardinality(HttpCredentialsOf(i)) = 1
                    /\ Cardinality(HttpLoginAttacksOf(i)) = 1

\* A submission with a password and no user name was answered and recorded
WpLoginPostNeverGrantsWitness ==
    \E i \in 1..Len(http) :
        /\ http[i].pc = "done" /\ Route(http[i].req) = "wp_login_post"
        /\ http[i].req.log = "" /\ http[i].req.pwd # ""
        /\ \E c \in HttpCredentialsOf(i) : c.password = http[i].req.pwd
        /\ http[i].status = 200

\* C25: When the route handler of a request raised an error that is not an
\* HTTPException, the request is answered with status 500 by the middleware,
\* and the Attack the middleware recorded for it, of the detected threat
\* type, is in the store (the store having taken the writes of the request).
HandlerErrorAnswered500 ==
    \A i \in 1..Len(http) :
        http[i].raised =>
            /\ http[i].pc = "done"
            /\ http[i].status = 500
            /\ http[i].body = "Internal Server Error"
            /\ ~http[i].store_failed =>
                  \E a \in HttpAttacksOf(i) : a.threat_type = http[i].threat_type

HandlerErrorAnswered500Witness ==
    \E i \in 1..Len(http) :
        /\ http[i].raised /\ ~http[i].store_failed
        /\ http[i].status = 500
        /\ Cardinality(HttpAttacksOf(i)) = 1

\* C26: Every response the emulator has sent carries the server-identity
\* headers (Server, X-Powered-By, X-Pingback and Link).
EveryResponseHasIdentityHeaders ==
    \A i \in 1..Len(http) : http[i].pc = "done" => http[i].wp_headers

-----------------------------------------------------------------------------
(* Properties of the service life cycle *)

\* C32: _running is true exactly between a start() that bound and the next
\* stop() that returned: start() on a running service and stop() on a
\* stopped one change neither _running nor the server, a stop() that
\* returns leaves _running false and keeps the server object, and a start()
\* whose bind fails raises and leaves _running false.
SvcRunningFollowsCalls ==
    [][/\ svc'.last = "start_noop" => svc.running /\ svc'.running /\ svc'.server = svc.server
       /\ svc'.last = "stop_noop" => ~svc'.running /\ svc'.server = svc.server
       /\ (svc'.last = "start_ok" /\ svc.last # "start_ok") => svc'.running
       /\ svc'.last = "stop_done" => ~svc'.running /\ svc'.server # "none"
       /\ svc'.last = "start_raised" => ~svc'.running /\ svc'.server = svc.server
       /\ svc'.running # svc.running => svc'.last \in {"start_ok", "stop_done"}]_vars

\* The service was started, stopped, and a second start could not bind
SvcRunningFollowsCallsWitness ==
    /\ svc.last = "start_raised"
    /\ svc.server = "closed"
    /\ ~svc.running

\* C31: once stop() has closed the listener no new connection is accepted,
\* and every active handler is signalled: unless the service is started
\* again, eventually no handler of the service is still serving a peer.
SvcStopEndsHandlers ==
    /\ [][svc.server = "closed" => Serving(svc') \subseteq Serving(svc)]_vars
    /\ (svc.server = "closed") ~> (Serving(svc) = {} \/ svc.server = "listening")

\* C33: an error raised while a handler processes a command ends that
\* handler only: it has run its session-close step when it has exited, the
\* accept loop (the server and _running) is as it was, and so is every other
\* handler.
SvcHandlerErrorContained ==
    [][\A h \in 1..MaxHandlers :
         (svc.handlers[h].pc = "serving" /\ svc'.handlers[h].how = "error") =>
            /\ svc'.handlers[h].pc = "exited"
            /\ svc'.handlers[h].closed
            /\ svc'.server = svc.server /\ svc'.running = svc.running
            /\ \A g \in 1..MaxHandlers \ {h} : svc'.handlers[g] = svc.handlers[g]]_vars

\* A handler ended on an error and sealed its Session while the other
\* handler is still serving and the service still listens
SvcHandlerErrorContainedWitness ==
    \E h, g \in 1..MaxHandlers :
        /\ svc.handlers[h].how = "error"
        /\ svc.handlers[h].session = "sealed"
        /\ svc.handlers[g].pc = "serving"
        /\ svc.server = "listening" /\ svc.running

-----------------------------------------------------------------------------
(* Properties of the Session times *)

\* C34: in every reachable state of the store, every Session whose end_time
\* is set has its end_time at or after its start_time, whatever the order of
\* the steps that open the Session, append to it and close it.
SessionEndsAfterStart ==
    \A sid \in SealedSessions(db) :
        db.sessions[sid].end_time >= db.sessions[sid].start_time

\* The SSH Session holds a command and was closed at a later time than it
\* was opened
SessionEndsAfterStartWitness ==
    /\ ssh.session_id \in SealedSessions(db)
    /\ db.sessions[ssh.session_id].commands # <<>>
    /\ db.sessions[ssh.session_id].end_time > db.sessions[ssh.session_id].start_time

-----------------------------------------------------------------------------
(* Properties of the FTP login gate *)

\* The commands that ask for a login
GatedWords ==
    { "PWD", "CWD", "CDUP", "MKD", "RMD", "SIZE", "RETR", "STOR", "DELE",
      "RNFR", "RNTO", "PASV", "PORT", "LIST", "NLST" }

\* C35: while the client is not authenticated, each of PWD, CWD, CDUP, MKD,
\* RMD, SIZE, RETR, STOR, DELE, RNFR, RNTO, PASV, PORT, LIST and NLST is
\* answered 530 alone and changes nothing of the handler but the commands
\* log: current_dir, rename_from, data_writer, passive_server, the listeners
\* and the data connections are as they were, and so is the store.
FtpCommandsAskForLogin ==
    [][\A w \in GatedWords :
         (~ftp.authenticated /\ FtpProcesses(w)) =>
            /\ ftp'.out = <<530>>
            /\ ftp' = [ftp EXCEPT !.commands = ftp'.commands, !.out = <<530>>]
            /\ db' = db]_vars

\* A client that logged out with a data connection pending asked for a file
\* and was refused; the data connection is still pending
FtpCommandsAskForLoginWitness ==
    /\ ~ftp.authenticated
    /\ LastCommand(ftp).cmd = "RETR"
    /\ ftp.out = <<530>>
    /\ ftp.data_writer # NoId
    /\ ftp.conns[ftp.data_writer].open /\ ~ftp.conns[ftp.data_writer].wrote

\* A USER that does not log the client in: another name than anonymous, or
\* anonymous on a server that does not allow it
Resetting(h, name) == ~(Lower(name) = "anonymous" /\ h.anonymous)

\* The log has a resetting USER with no PASS after it
LoggedOutUntilPass(h) ==
    \E i \in 1..Len(h.commands) :
        /\ h.commands[i].cmd = "USER" /\ Resetting(h, h.commands[i].arg)
        /\ \A j \in (i + 1)..Len(h.commands) : h.commands[j].cmd # "PASS"

\* The log has a resetting USER with no PASS and no USER after it
LoggedOutUntilLogin(h) ==
    \E i \in 1..Len(h.commands) :
        /\ h.commands[i].cmd = "USER" /\ Resetting(h, h.commands[i].arg)
        /\ \A j \in (i + 1)..Len(h.commands) : h.commands[j].cmd \notin {"PASS", "USER"}

\* The USER step of a logged-in client that resets authenticated and keeps
\* the directory, the listeners and the data connections
UserResetKeepsSession ==
    (ftp.authenticated /\ FtpProcesses("USER") /\ Resetting(ftp, LastCommand(ftp').arg))
        => /\ ~ftp'.authenticated
           /\ ftp'.current_dir = ftp.current_dir
           /\ ftp'.passive_server = ftp.passive_server
           /\ ftp'.listeners = ftp.listeners
           /\ ftp'.data_writer = ftp.data_writer /\ ftp'.conns = ftp.conns

\* C36 as claimed: a resetting USER from a logged-in client sets
\* authenticated to false and keeps current_dir and the open passive
\* listener, and until the next PASS every command that asks for a login is
\* answered 530.
FtpUserLogsOutUntilPass ==
    [][/\ UserResetKeepsSession
       /\ \A w \in GatedWords :
            (LoggedOutUntilPass(ftp) /\ FtpProcesses(w)) => ftp'.out = <<530>>]_vars

\* C36: a resetting USER from a logged-in client sets authenticated to
\* false and keeps current_dir and the open passive listener, and until the
\* next PASS or the next USER every command that asks for a login is answered
\* 530.
FtpUserLogsOut ==
    [][/\ UserResetKeepsSession
       /\ \A w \in GatedWords :
            (LoggedOutUntilLogin(ftp) /\ FtpProcesses(w)) => ftp'.out = <<530>>]_vars

\* The client changed to /backup, opened a passive listener, sent USER bob
\* and was refused a LIST; the directory and the listener are kept
FtpUserLogsOutWitness ==
    /\ Len(ftp.commands) >= 2
    /\ ftp.commands[Len(ftp.commands) - 1] = [cmd |-> "USER", arg |-> "bob"]
    /\ LastCommand(ftp).cmd = "LIST"
    /\ ftp.out = <<530>>
    /\ OpenListeners(ftp) # {}
    /\ ftp.passive_server # NoId

(***************************************************************************)
(* Properties of the attack id a handler keeps                             *)
(***************************************************************************)

\* C37: whenever the attack_id of the SSH server or of the FTP handler is set
\* it is the id of an Attack row of the store, also after a transaction that
\* failed once the id was assigned.
HandlerAttackIdIsPersisted ==
    /\ ftp.attack_id # NoId => ftp.attack_id \in AttackIds(db)
    /\ ssh.attack_id # NoId => ssh.attack_id \in AttackIds(db)

(***************************************************************************)
(* Properties of the commands entered while the shell starts               *)
(***************************************************************************)

\* C38: a command the SSH attacker enters after the shell has started is
\* recorded in the Session when the store is available, also when it arrives
\* before the shell-start task has created the Session: once the one command
\* line of a connection was entered and every task has finished, with no task
\* cut short and no store call failed, the Session holds that command.
SshEarlyCommandIsRecorded ==
    (/\ SshSessionOpened
     /\ tasks = <<>> /\ Len(ssh.entered) = 1
     /\ ~ssh.aborted /\ ~ssh.store_failed)
        => db.sessions[ssh.session_id].commands = ssh.entered

(***************************************************************************)
(* Properties of the FTP transfers                                         *)
(***************************************************************************)

TransferWords == {"RETR", "STOR", "NLST"}

====
